---- MODULE Spec2Model ----
(***************************************************************************)
(* Trail matching engine of rabbit-miles                                   *)
(* (backend/match_activity_trail/lambda_function.py) together with the     *)
(* other writers of the activities and leaderboard_agg tables.             *)
(*                                                                         *)
(* Number representation.  Python floats are modelled by integers:         *)
(*   - a coordinate is kept in units of 1e-5 degree (the integer the       *)
(*     polyline codec accumulates before its final division by 1e5);       *)
(*   - inside the geometry a coordinate is kept in half units (so that a   *)
(*     midpoint is an integer);                                            *)
(*   - a distance is kept in decimetres.                                   *)
(* All model coordinates lie within a few hundred units of (0,0), where    *)
(* the great-circle distance is the planar one up to rounding.             *)
(***************************************************************************)
EXTENDS Integers, Sequences, FiniteSets, TLC

----------------------------------------------------------------------------
(* Generic helpers                                                         *)

Min(a, b) == IF a <= b THEN a ELSE b
Max(a, b) == IF a >= b THEN a ELSE b

RECURSIVE SeqMin(_)
SeqMin(s) == IF Len(s) = 1 THEN s[1] ELSE Min(s[1], SeqMin(Tail(s)))

RECURSIVE SeqMax(_)
SeqMax(s) == IF Len(s) = 1 THEN s[1] ELSE Max(s[1], SeqMax(Tail(s)))

RECURSIVE Flatten(_)
Flatten(ss) == IF ss = <<>> THEN <<>> ELSE Head(ss) \o Flatten(Tail(ss))

\* floor(sqrt(n)) by bisection on lo..hi
RECURSIVE SqrtSearch(_, _, _)
SqrtSearch(n, lo, hi) ==
    IF lo >= hi THEN lo
    ELSE LET mid == (lo + hi + 1) \div 2
         IN  IF mid * mid <= n THEN SqrtSearch(n, mid, hi)
                               ELSE SqrtSearch(n, lo, mid - 1)

ISqrt(n) == SqrtSearch(n, 0, 46340)

\* Python range(0, n, step) as a set of indices
RangeStep(n, step) == { i \in 0..(n - 1) : i % step = 0 }

----------------------------------------------------------------------------
(* PolylineCodec: decode_polyline.  A string is a sequence of character    *)
(* codes (ord values).                                                     *)

DecodeError == [ok |-> FALSE, coords |-> <<>>]

\* the inner "while True" loop: reads 5-bit chunks starting at index i
\* (1-based); mult = 2^shift.  Indexing past the end raises IndexError.
RECURSIVE ReadChunks(_, _, _, _)
ReadChunks(s, i, result, mult) ==
    IF i > Len(s) THEN [ok |-> FALSE, result |-> 0, index |-> i]
    ELSE LET b == s[i] - 63
             r == result + (b % 32) * mult
         IN  IF b < 32 THEN [ok |-> TRUE, result |-> r, index |-> i + 1]
             ELSE ReadChunks(s, i + 1, r, mult * 32)

\* ~(result >> 1) if (result & 1) else (result >> 1)
ZigZag(result) ==
    IF result % 2 = 1 THEN -(result \div 2) - 1 ELSE result \div 2

RECURSIVE DecodeFrom(_, _, _, _, _)
DecodeFrom(s, i, lat, lng, acc) ==
    IF i > Len(s) THEN [ok |-> TRUE, coords |-> acc]
    ELSE LET a == ReadChunks(s, i, 0, 1)
         IN  IF ~a.ok THEN DecodeError
             ELSE LET b == ReadChunks(s, a.index, 0, 1)
                  IN  IF ~b.ok THEN DecodeError
                      ELSE LET nlat == lat + ZigZag(a.result)
                               nlng == lng + ZigZag(b.result)
                           IN  DecodeFrom(s, b.index, nlat, nlng,
                                          Append(acc, <<nlat, nlng>>))

decode_polyline(polyline_str) == DecodeFrom(polyline_str, 1, 0, 0, <<>>)

----------------------------------------------------------------------------
(* GeoMath.  Arguments are in half units of 1e-5 degree; the result is in  *)
(* decimetres (one half unit of arc is 0.556 m on the 6,371,000 m sphere). *)

haversine_distance(lat1, lon1, lat2, lon2) ==
    LET dlat == lat2 - lat1
        dlon == lon2 - lon1
    IN  (ISqrt((dlat * dlat + dlon * dlon) * 100) * 556) \div 1000

\* x is lon, y is lat, as at the call sites
point_to_segment_distance(px, py, ax, ay, bx, by) ==
    LET abx == bx - ax
        aby == by - ay
        apx == px - ax
        apy == py - ay
    IN  IF abx = 0 /\ aby = 0
        THEN haversine_distance(py, px, ay, ax)
        ELSE LET ab_ab == abx * abx + aby * aby
                 ap_ab == apx * abx + apy * aby
                 \* t = ap_ab / ab_ab clamped to [0,1], kept as tnum / ab_ab
                 tnum  == Max(0, Min(ab_ab, ap_ab))
                 closest_x == ax + (tnum * abx) \div ab_ab
                 closest_y == ay + (tnum * aby) \div ab_ab
             IN  haversine_distance(py, px, closest_y, closest_x)

----------------------------------------------------------------------------
(* IntersectionMatcher: calculate_trail_intersection.                      *)
(* activity_coords: sequence of <<lat, lon>>; trail_segments: sequence of  *)
(* sequences of <<lat, lon>> (units of 1e-5 degree); tolerance in metres.  *)
(* tolerance_degrees = tolerance_meters / 111000 is 100 * tolerance / 111  *)
(* units, so every comparison with it is multiplied through by 111.        *)
(* The result is [distance_on_trail (dm), time_ratio (num, den)].          *)

\* variant: "no intersection" is reported as a negative distance
NoIntersection_Sentinel == [distance_on_trail |-> -1, ratio_num |-> 0, ratio_den |-> 1]

NoIntersection == [distance_on_trail |-> 0, ratio_num |-> 0, ratio_den |-> 1]

Lats(points) == [i \in 1..Len(points) |-> points[i][1]]
Lons(points) == [i \in 1..Len(points) |-> points[i][2]]

\* variant: the activity's box is shrunk by the tolerance
BBoxSeparated_Shrunk(activity_coords, all_trail_points, tolerance_meters) ==
    LET amin_lat == SeqMin(Lats(activity_coords))
        amax_lat == SeqMax(Lats(activity_coords))
        amin_lon == SeqMin(Lons(activity_coords))
        amax_lon == SeqMax(Lons(activity_coords))
        tmin_lat == SeqMin(Lats(all_trail_points))
        tmax_lat == SeqMax(Lats(all_trail_points))
        tmin_lon == SeqMin(Lons(all_trail_points))
        tmax_lon == SeqMax(Lons(all_trail_points))
        tol == 100 * tolerance_meters
    IN  \/ 111 * amax_lat - tol < 111 * tmin_lat
        \/ 111 * amin_lat + tol > 111 * tmax_lat
        \/ 111 * amax_lon - tol < 111 * tmin_lon
        \/ 111 * amin_lon + tol > 111 * tmax_lon

\* OPTIMIZATION 1: bounding boxes completely separated (with tolerance)
BBoxSeparated(activity_coords, all_trail_points, tolerance_meters) ==
    LET amin_lat == SeqMin(Lats(activity_coords))
        amax_lat == SeqMax(Lats(activity_coords))
        amin_lon == SeqMin(Lons(activity_coords))
        amax_lon == SeqMax(Lons(activity_coords))
        tmin_lat == SeqMin(Lats(all_trail_points))
        tmax_lat == SeqMax(Lats(all_trail_points))
        tmin_lon == SeqMin(Lons(all_trail_points))
        tmax_lon == SeqMax(Lons(all_trail_points))
        tol == 100 * tolerance_meters
    IN  \/ 111 * amax_lat + tol < 111 * tmin_lat
        \/ 111 * amin_lat - tol > 111 * tmax_lat
        \/ 111 * amax_lon + tol < 111 * tmin_lon
        \/ 111 * amin_lon - tol > 111 * tmax_lon

\* sample_indices (0-based) of OPTIMIZATION 2
SampleIndices(n) ==
    LET sample_size == Min(20, n)
    IN  { (i * (n - 1)) \div Max(1, sample_size - 1) : i \in 0..(sample_size - 1) }

\* OPTIMIZATION 2: some sampled activity point is within 5x tolerance of a
\* sampled trail edge
FoundNearby(activity_coords, trail_segments, tolerance_meters) ==
    \E idx \in SampleIndices(Len(activity_coords)) :
        /\ idx < Len(activity_coords)
        /\ LET lat == activity_coords[idx + 1][1]
               lon == activity_coords[idx + 1][2]
           IN  \E seg_idx \in RangeStep(Len(trail_segments),
                                        Max(1, Len(trail_segments) \div 20)) :
                 LET segment == trail_segments[seg_idx + 1]
                 IN  \E j \in RangeStep(Len(segment) - 1,
                                        Max(1, Len(segment) \div 10)) :
                       LET p1 == segment[j + 1]
                           p2 == IF j + 1 < Len(segment) THEN segment[j + 2]
                                                         ELSE segment[j + 1]
                       IN  point_to_segment_distance(
                               2 * lon, 2 * lat,
                               2 * p1[2], 2 * p1[1],
                               2 * p2[2], 2 * p2[1]) <= tolerance_meters * 5 * 10

\* the midpoint (in half units) passes the bounding-box pre-check of the
\* trail edge p1-p2 and is within tolerance of it
EdgeNearTrailEdge(mid_lat2, mid_lon2, p1, p2, tolerance_meters) ==
    LET tol == 200 * tolerance_meters
        outside ==
            \/ 111 * mid_lat2 < 222 * Min(p1[1], p2[1]) - tol
            \/ 111 * mid_lat2 > 222 * Max(p1[1], p2[1]) + tol
            \/ 111 * mid_lon2 < 222 * Min(p1[2], p2[2]) - tol
            \/ 111 * mid_lon2 > 222 * Max(p1[2], p2[2]) + tol
    IN  /\ ~outside
        /\ point_to_segment_distance(
               mid_lon2, mid_lat2,
               2 * p1[2], 2 * p1[1],
               2 * p2[2], 2 * p2[1]) <= tolerance_meters * 10

\* variant: the trail points of all segments are joined into one line
IsOnTrail_Bridging(c1, c2, trail_segments, tolerance_meters) ==
    LET mid_lat2 == c1[1] + c2[1]
        mid_lon2 == c1[2] + c2[2]
        line == Flatten(trail_segments)
    IN  \E j \in 1..(Len(line) - 1) :
           EdgeNearTrailEdge(mid_lat2, mid_lon2, line[j], line[j + 1],
                             tolerance_meters)

\* is_on_trail of the activity edge c1-c2
IsOnTrail(c1, c2, trail_segments, tolerance_meters) ==
    LET mid_lat2 == c1[1] + c2[1]
        mid_lon2 == c1[2] + c2[2]
    IN  \E s \in 1..Len(trail_segments) :
          \E j \in 1..(Len(trail_segments[s]) - 1) :
             EdgeNearTrailEdge(mid_lat2, mid_lon2,
                               trail_segments[s][j], trail_segments[s][j + 1],
                               tolerance_meters)

SegmentDistance(c1, c2) ==
    haversine_distance(2 * c1[1], 2 * c1[2], 2 * c2[1], 2 * c2[2])

\* variant: the last edge is left out of the total
RECURSIVE TotalDistance_SkipLast(_, _)
TotalDistance_SkipLast(activity_coords, i) ==
    IF i >= Len(activity_coords) - 1 THEN 0
    ELSE SegmentDistance(activity_coords[i], activity_coords[i + 1])
         + TotalDistance_SkipLast(activity_coords, i + 1)

\* total_distance over the edges i..Len-1
RECURSIVE TotalDistance(_, _)
TotalDistance(activity_coords, i) ==
    IF i >= Len(activity_coords) THEN 0
    ELSE SegmentDistance(activity_coords[i], activity_coords[i + 1])
         + TotalDistance(activity_coords, i + 1)

\* sum of the lengths of the on-trail edges i..Len-1
RECURSIVE OnTrailDistance(_, _, _, _)
OnTrailDistance(activity_coords, trail_segments, tolerance_meters, i) ==
    IF i >= Len(activity_coords) THEN 0
    ELSE (IF IsOnTrail(activity_coords[i], activity_coords[i + 1],
                       trail_segments, tolerance_meters)
          THEN SegmentDistance(activity_coords[i], activity_coords[i + 1])
          ELSE 0)
         + OnTrailDistance(activity_coords, trail_segments, tolerance_meters, i + 1)

\* variant: the ratio returned is that of a path wholly on the trail
calculate_trail_intersection_FullRatio(activity_coords, trail_segments, tolerance_meters) ==
    IF activity_coords = <<>> \/ trail_segments = <<>> THEN NoIntersection
    ELSE IF BBoxSeparated(activity_coords, Flatten(trail_segments), tolerance_meters)
    THEN NoIntersection
    ELSE [distance_on_trail |->
              IF FoundNearby(activity_coords, trail_segments, tolerance_meters)
              THEN OnTrailDistance(activity_coords, trail_segments,
                                   tolerance_meters, 1)
              ELSE 0,
          ratio_num |-> 1, ratio_den |-> 1]

calculate_trail_intersection(activity_coords, trail_segments, tolerance_meters) ==
    IF activity_coords = <<>> \/ trail_segments = <<>> THEN NoIntersection
    ELSE IF BBoxSeparated(activity_coords, Flatten(trail_segments), tolerance_meters)
    THEN NoIntersection
    ELSE IF ~FoundNearby(activity_coords, trail_segments, tolerance_meters)
    THEN NoIntersection
    ELSE LET total_distance == TotalDistance(activity_coords, 1)
             distance_on_trail ==
                 OnTrailDistance(activity_coords, trail_segments, tolerance_meters, 1)
         IN  [distance_on_trail |-> distance_on_trail,
              ratio_num |-> IF total_distance > 0 THEN distance_on_trail ELSE 0,
              ratio_den |-> IF total_distance > 0 THEN total_distance ELSE 1]

TRAIL_TOLERANCE_METERS == 25

----------------------------------------------------------------------------
(* Trail network store: load_trail_data_from_s3.  A GeoJSON collection is  *)
(* a sequence of features [type, coordinates], coordinates in (lon, lat).  *)

MainGeoJSON ==
    << [type |-> "LineString",
        coordinates |-> << <<0, 0>>, <<50, 0>>, <<100, 0>> >>],
       [type |-> "LineString", coordinates |-> << <<400, 400>> >>] >>

SpursGeoJSON ==
    << [type |-> "MultiLineString",
        coordinates |-> << << <<100, 0>>, <<100, 60>> >>,
                           << <<300, 300>> >> >>],
       [type |-> "Point", coordinates |-> << >>] >>

\* [(lat, lon) for lon, lat in coords]
FlipLine(coords) == [i \in 1..Len(coords) |-> <<coords[i][2], coords[i][1]>>]

\* the lines of a MultiLineString that have at least 2 points, flipped
RECURSIVE LinesToSegments(_)
LinesToSegments(lines) ==
    IF lines = <<>> THEN <<>>
    ELSE (IF Len(Head(lines)) >= 2 THEN <<FlipLine(Head(lines))>> ELSE <<>>)
         \o LinesToSegments(Tail(lines))

RECURSIVE FeaturesToSegments(_)
FeaturesToSegments(features) ==
    IF features = <<>> THEN <<>>
    ELSE LET f == Head(features)
         IN  (IF f.type = "LineString"
              THEN (IF Len(f.coordinates) >= 2 THEN <<FlipLine(f.coordinates)>>
                                               ELSE <<>>)
              ELSE IF f.type = "MultiLineString"
              THEN LinesToSegments(f.coordinates)
              ELSE <<>>)
             \o FeaturesToSegments(Tail(features))

\* main_ok / spurs_ok: whether reading that object succeeds; a failed
\* read is caught per collection.  The result is empty exactly when
\* RuntimeError("No trail data loaded from S3") is raised.
load_trail_data_from_s3(main_ok, spurs_ok) ==
    (IF main_ok THEN FeaturesToSegments(MainGeoJSON) ELSE <<>>)
    \o (IF spurs_ok THEN FeaturesToSegments(SpursGeoJSON) ELSE <<>>)

----------------------------------------------------------------------------
(* Window keys: get_window_keys.  A date is [y, m, d].                     *)

DaysFromCivil(y, m, d) ==
    LET yy  == IF m <= 2 THEN y - 1 ELSE y
        era == yy \div 400
        yoe == yy - era * 400
        mp  == IF m > 2 THEN m - 3 ELSE m + 9
        doy == (153 * mp + 2) \div 5 + d - 1
        doe == yoe * 365 + yoe \div 4 - yoe \div 100 + doy
    IN  era * 146097 + doe - 719468

CivilFromDays(z0) ==
    LET z   == z0 + 719468
        era == z \div 146097
        doe == z - era * 146097
        yoe == (doe - doe \div 1460 + doe \div 36524 - doe \div 146096) \div 365
        doy == doe - (365 * yoe + yoe \div 4 - yoe \div 100)
        mp  == (5 * doy + 2) \div 153
        d   == doy - (153 * mp + 2) \div 5 + 1
        m   == IF mp < 10 THEN mp + 3 ELSE mp - 9
        y   == yoe + era * 400 + (IF m <= 2 THEN 1 ELSE 0)
    IN  [y |-> y, m |-> m, d |-> d]

\* dt.weekday(): Monday is 0
Weekday(dt) == (DaysFromCivil(dt.y, dt.m, dt.d) + 3) % 7

\* window keys in dict order week, month, year; "week_YYYY-MM-DD" is
\* <<"week", Y, M, D>>, "month_YYYY-MM" is <<"month", Y, M, 0>>,
\* "year_YYYY" is <<"year", Y, 0, 0>>
get_window_keys(start_date_local) ==
    LET monday == CivilFromDays(DaysFromCivil(start_date_local.y,
                                              start_date_local.m,
                                              start_date_local.d)
                                - Weekday(start_date_local))
    IN  << <<"week", monday.y, monday.m, monday.d>>,
           <<"month", start_date_local.y, start_date_local.m, 0>>,
           <<"year", start_date_local.y, 0, 0>> >>

\* variant: every activity type counts for the "all" bucket only
AggTypes_AllOnly(activity_type) == <<"all">>

\* agg_types of an activity type
AggTypes(activity_type) ==
    IF activity_type \in {"Run", "Walk"} THEN <<"all", "foot">>
    ELSE IF activity_type = "Ride" THEN <<"all", "bike">>
    ELSE <<"all">>

\* the (window_key, metric, activity_type, athlete_id) keys in the order
\* of the two nested loops
RECURSIVE CrossKeys(_, _, _)
CrossKeys(window_keys, agg_types, athlete_id) ==
    IF window_keys = <<>> THEN <<>>
    ELSE [i \in 1..Len(agg_types) |->
             <<Head(window_keys), "distance", agg_types[i], athlete_id>>]
         \o CrossKeys(Tail(window_keys), agg_types, athlete_id)

----------------------------------------------------------------------------
(* Stores.  A nullable column or a missing row is <<>> (NULL), a value is  *)
(* <<v>>.  leaderboard_agg is a function from the keys of the existing     *)
(* rows to their values.                                                   *)

Null == <<>>
Some(v) == <<v>>
\* COALESCE(x, 0)
Coalesce0(x) == IF x = Null THEN 0 ELSE x[1]

NoRow == [present |-> FALSE]

\* ids of activity rows; MissingId is an id that has no row
ActIds == {1, 2}
MissingId == 3
DispatchIds == ActIds \cup {MissingId}
Athletes == {1, 2}
Workers == {"w1", "w2"}

\* encoded polylines (character codes)
PolyEmpty     == << >>
\* "??" followed by a latitude and a longitude chunk that never terminates
PolyTruncated == <<63, 63, 63, 111>>
\* (5,0) (5,40) (5,80): along the main trail
PolyNear      == <<73, 63, 63, 111, 65, 63, 111, 65>>
\* (5,0) (5,40) (200,40): leaves the trail after the first edge
PolyPartial   == <<73, 63, 63, 111, 65, 101, 75, 63>>

Date1 == [y |-> 2026, m |-> 2, d |-> 15]
Date2 == [y |-> 2026, m |-> 3, d |-> 1]

SeqRange(s) == { s[i] : i \in 1..Len(s) }

ActivityRow(athlete_id, polyline, moving_time, distance, start_date_local, type) ==
    [present |-> TRUE, athlete_id |-> athlete_id, polyline |-> polyline,
     moving_time |-> moving_time, distance |-> distance,
     start_date_local |-> start_date_local, type |-> type,
     distance_on_trail |-> Null, time_on_trail |-> Null, last_matched |-> Null]

\* bound on the number of dispatched process() runs (and on the clock)
MaxClock == 2
\* bound on the number of failing leaderboard statements
MaxFaults == 1
\* bound on the number of activity-delete events
MaxDeletes == 1

\* the frame of a match_activity call.
\*   missing: get_activity_from_db returned None
\*   decoded, trail: "none" (not called), "ok" or "failed" (raised)
\*   raised: an exception left match_activity
\*   lb: how update_leaderboard_after_trail_matching ended;
\*   lb_error: one of its statements raised
\* History fields: written (the UPDATE was executed), persisted (the row
\* as the UPDATE left it), stored_before_write (distance_on_trail of the
\* row just before the UPDATE, NULL read as 0), interfered (somebody else
\* changed the row between this call's SELECT and its UPDATE), loaded
\* (<<main, spurs>>: which collections load_trail_data_from_s3 could read;
\* kept for the calls of a sequential dispatch only, <<>> otherwise).
NoRun ==
    [pc |-> "idle", activity_id |-> 0, missing |-> FALSE, athlete_id |-> 0,
     polyline |-> << >>, old_distance_on_trail |-> 0,
     decoded |-> "none", trail |-> "none",
     distance_on_trail |-> 0, time_on_trail |-> 0, message |-> "",
     raised |-> FALSE,
     lb |-> "none", lb_error |-> FALSE,
     lb_delta |-> 0, lb_keys |-> << >>, lb_idx |-> 0,
     written |-> FALSE, persisted |-> Null,
     stored_before_write |-> Null, interfered |-> FALSE,
     loaded |-> << >>]

VARIABLES
    activities,       \* activities table: id -> row
    users,            \* users table: athlete_id -> NULL (no row) or <<show_on_leaderboards>>
    leaderboard_agg,  \* leaderboard_agg table: key of an existing row -> value
    run,              \* per worker: the frame of its match_activity call
    now,              \* clock, advanced at every dispatch
    faults,           \* number of leaderboard statements that have failed
    deletes,          \* number of activity-delete events so far
    attributed,       \* history: per existing row, the sum of the
                      \* distance_on_trail deltas attributed to it since
                      \* the row was created
    probe,            \* the frame of a calculate_trail_intersection call
                      \* made on its own
    driver,           \* the frame of the match_unmatched_activities handler
    invocations       \* asynchronous invocations of match_activity_trail
                      \* accepted and not yet started: activity id -> number

vars == <<activities, users, leaderboard_agg, run, now, faults, deletes,
          attributed, probe, driver, invocations>>

\* match_unmatched_activities, line 26
BATCH_SIZE == 10

\* the number of invocations of one activity the platform holds at a time;
\* a further invoke is refused
MaxPending == 1

\* the frame of the match_unmatched_activities handler.  History fields:
\* attempted (the ids passed to invoke_match_activity, in order) and
\* results (what each of these calls returned)
NoDriver ==
    [pc |-> "idle", selected |-> << >>, idx |-> 0, total_found |-> 0,
     queued_count |-> 0, failed_to_queue_count |-> 0,
     attempted |-> << >>, results |-> << >>]

\* the frame of a calculate_trail_intersection call.
\*   returned_at: the stage whose return statement ended the call
\*   sampled: the sampling loops of OPTIMIZATION 2 were entered
\*   classified: the per-edge loop was entered
NoProbe ==
    [pc |-> "idle", activity_coords |-> << >>, trail_segments |-> << >>,
     tolerance_meters |-> 0, returned_at |-> "", sampled |-> FALSE,
     classified |-> FALSE,
     distance_on_trail |-> 0, ratio_num |-> 0, ratio_den |-> 1]

\* the second activity and the athletes' preferences
Scenarios ==
    { [a2 |-> ActivityRow(1, PolyPartial, 300, 40000, Some(Date1), "Run"),
       users |-> [a \in Athletes |-> IF a = 1 THEN Some(TRUE) ELSE Null]],
      [a2 |-> ActivityRow(1, PolyEmpty, 300, 40000, Some(Date2), "Ride"),
       users |-> [a \in Athletes |-> IF a = 1 THEN Some(TRUE) ELSE Null]],
      [a2 |-> ActivityRow(2, PolyTruncated, 300, 20000, Null, "Hike"),
       users |-> [a \in Athletes |-> Some(a = 1)]],
      [a2 |-> ActivityRow(2, PolyPartial, 300, 20000, Some(Date1), "Walk"),
       users |-> [a \in Athletes |-> IF a = 1 THEN Some(TRUE) ELSE Null]],
      [a2 |-> ActivityRow(2, PolyNear, 300, 20000, Some(Date2), "Ride"),
       users |-> [a \in Athletes |-> Some(a = 2)]] }

Init ==
    /\ \E sc \in Scenarios :
         /\ activities = [i \in DispatchIds |->
                IF i = 1 THEN ActivityRow(1, PolyNear, 600, 30000, Some(Date1), "Run")
                ELSE IF i = 2 THEN sc.a2
                ELSE NoRow]
         /\ users = sc.users
    /\ leaderboard_agg = << >>
    /\ run = [w \in Workers |-> NoRun]
    /\ now = 0
    /\ faults = 0
    /\ deletes = 0
    /\ attributed = << >>
    /\ probe = NoProbe
    /\ driver = NoDriver
    /\ invocations = [i \in DispatchIds |-> 0]

----------------------------------------------------------------------------
(* MatchOrchestrator: match_activity.  One action per statement on the     *)
(* activities and leaderboard_agg tables; the steps of a call that touch   *)
(* no table (decoding, the S3 read, the geometry) are part of the action   *)
(* of the statement before them.                                           *)

\* the "except Exception as outer_e" handler: a result is returned
OuterExcept(r) ==
    [r EXCEPT !.pc = "done", !.distance_on_trail = 0, !.time_on_trail = 0,
              !.message = "Processing failed", !.raised = FALSE]

\* variant: the old distance is taken to be 0 ("usually 0")
get_activity_from_db_OldZero(id) ==
    IF ~activities[id].present THEN Null
    ELSE Some([activity_id |-> id,
               athlete_id |-> activities[id].athlete_id,
               polyline |-> activities[id].polyline,
               moving_time |-> activities[id].moving_time,
               distance |-> activities[id].distance,
               old_distance_on_trail |-> 0])

\* SELECT ... COALESCE(distance_on_trail, 0) ... WHERE id = :id
get_activity_from_db(id) ==
    IF ~activities[id].present THEN Null
    ELSE Some([activity_id |-> id,
               athlete_id |-> activities[id].athlete_id,
               polyline |-> activities[id].polyline,
               moving_time |-> activities[id].moving_time,
               distance |-> activities[id].distance,
               old_distance_on_trail |-> Coalesce0(activities[id].distance_on_trail)])

\* The polylines, trail files and dates of the stores below, and what the
\* pure functions above return for them.
Polylines == {PolyEmpty, PolyTruncated, PolyNear, PolyPartial}

\* decode_polyline of each polyline
Decoded == [p \in Polylines |-> decode_polyline(p)]

\* load_trail_data_from_s3 for each <<main readable, spurs readable>>
Trails == [l \in BOOLEAN \X BOOLEAN |-> load_trail_data_from_s3(l[1], l[2])]

\* calculate_trail_intersection of each decoded polyline and loaded network
Intersections ==
    [p \in Polylines |-> [l \in BOOLEAN \X BOOLEAN |->
        calculate_trail_intersection(Decoded[p].coords, Trails[l],
                                     TRAIL_TOLERANCE_METERS)]]

\* get_window_keys of each date
WindowKeys == [d \in {Date1, Date2} |-> get_window_keys(d)]

\* variant: the trail is loaded outside the inner try, so that its
\* RuntimeError reaches the outer handler
MatchAgainstTrail_LoadOutsideTry(r, activity, main_ok, spurs_ok) ==
    LET trail_segments == Trails[<<main_ok, spurs_ok>>]
        res == Intersections[activity.polyline][<<main_ok, spurs_ok>>]
    IN  IF trail_segments = << >>
        THEN OuterExcept([r EXCEPT !.trail = "failed"])
        ELSE [r EXCEPT !.pc = "write", !.trail = "ok",
                       !.distance_on_trail = res.distance_on_trail,
                       !.time_on_trail =
                           (activity.moving_time * res.ratio_num) \div res.ratio_den,
                       !.message = "Successfully matched"]

\* lines 598-609 and 625-628: load the trail and intersect, or fall into
\* the inner except with zeros
MatchAgainstTrail(r, activity, main_ok, spurs_ok) ==
    LET trail_segments == Trails[<<main_ok, spurs_ok>>]
        res == Intersections[activity.polyline][<<main_ok, spurs_ok>>]
    IN  IF trail_segments = << >>
        THEN [r EXCEPT !.pc = "write", !.trail = "failed",
                       !.distance_on_trail = 0, !.time_on_trail = 0,
                       !.message = "Matching failed"]
        ELSE [r EXCEPT !.pc = "write", !.trail = "ok",
                       !.distance_on_trail = res.distance_on_trail,
                       !.time_on_trail =
                           (activity.moving_time * res.ratio_num) \div res.ratio_den,
                       !.message = "Successfully matched"]

\* variant: no early return for an empty polyline
BeforeWrite_NoEmptyCheck(r, main_ok, spurs_ok) ==
    LET activity == get_activity_from_db(r.activity_id)
    IN  IF activity = Null THEN OuterExcept([r EXCEPT !.missing = TRUE])
        ELSE IF activity[1].athlete_id = 0 THEN OuterExcept(r)
        ELSE LET r1 == [r EXCEPT !.athlete_id = activity[1].athlete_id,
                                 !.polyline = activity[1].polyline,
                                 !.old_distance_on_trail =
                                     activity[1].old_distance_on_trail]
             IN  IF ~Decoded[activity[1].polyline].ok
                 THEN OuterExcept([r1 EXCEPT !.decoded = "failed"])
                 ELSE MatchAgainstTrail([r1 EXCEPT !.decoded = "ok"],
                                        activity[1], main_ok, spurs_ok)

\* lines 563-609: everything match_activity does before its UPDATE
BeforeWrite(r, main_ok, spurs_ok) ==
    LET activity == get_activity_from_db(r.activity_id)
    IN  IF activity = Null THEN OuterExcept([r EXCEPT !.missing = TRUE])
        ELSE IF activity[1].athlete_id = 0 THEN OuterExcept(r)
        ELSE LET r1 == [r EXCEPT !.athlete_id = activity[1].athlete_id,
                                 !.polyline = activity[1].polyline,
                                 !.old_distance_on_trail =
                                     activity[1].old_distance_on_trail]
             IN  IF activity[1].polyline = << >>
                 THEN [r1 EXCEPT !.pc = "write", !.distance_on_trail = 0,
                                 !.time_on_trail = 0,
                                 !.message = "No polyline data"]
                 ELSE IF ~Decoded[activity[1].polyline].ok
                 THEN OuterExcept([r1 EXCEPT !.decoded = "failed"])
                 ELSE MatchAgainstTrail([r1 EXCEPT !.decoded = "ok"],
                                        activity[1], main_ok, spurs_ok)

\* handler -> match_activity(activity_id), up to the UPDATE
Start(w, id) ==
    /\ run[w].pc = "idle"
    /\ now < MaxClock
    /\ now' = now + 1
    /\ \E main_ok, spurs_ok \in BOOLEAN :
         run' = [run EXCEPT ![w] =
                    BeforeWrite([NoRun EXCEPT !.activity_id = id], main_ok, spurs_ok)]
    /\ UNCHANGED <<probe, driver, invocations, activities, users, leaderboard_agg, faults, deletes, attributed>>

\* handler, SQS trigger: the records of one event are matched one after
\* the other, each call starting when the previous one has returned
StartSeq(w, id) ==
    /\ run[w].pc = "idle"
    /\ \A v \in Workers \ {w} : run[v].pc \in {"idle", "done"}
    /\ now < MaxClock
    /\ now' = now + 1
    /\ \E main_ok, spurs_ok \in BOOLEAN :
         LET r == BeforeWrite([NoRun EXCEPT !.activity_id = id], main_ok, spurs_ok)
         IN  run' = [run EXCEPT ![w] =
                        IF r.trail = "none" THEN r
                        ELSE [r EXCEPT !.loaded = <<main_ok, spurs_ok>>]]
    /\ UNCHANGED <<probe, driver, invocations, activities, users, leaderboard_agg, faults, deletes, attributed>>

\* variant: the UPDATE has no WHERE clause
update_activity_trail_metrics_AllRows(id, distance_on_trail, time_on_trail) ==
    [i \in DOMAIN activities |->
        IF activities[i].present
        THEN [activities[i] EXCEPT !.distance_on_trail = Some(distance_on_trail),
                                   !.time_on_trail = Some(time_on_trail),
                                   !.last_matched = Some(now)]
        ELSE activities[i]]

\* UPDATE activities SET distance_on_trail, time_on_trail, last_matched
\* WHERE id = :id
update_activity_trail_metrics(id, distance_on_trail, time_on_trail) ==
    IF activities[id].present
    THEN [activities EXCEPT ![id].distance_on_trail = Some(distance_on_trail),
                            ![id].time_on_trail = Some(time_on_trail),
                            ![id].last_matched = Some(now)]
    ELSE activities

\* a statement of somebody else changes the row between the SELECT and
\* the UPDATE of the runs that are on this activity
Interfere(id, except) ==
    [v \in Workers |->
        IF v # except /\ run[v].pc = "write" /\ run[v].activity_id = id
        THEN [run[v] EXCEPT !.interfered = TRUE] ELSE run[v]]

\* variant: the UPDATE adds the new metrics to the stored ones
Write_Accumulate(w) ==
    /\ run[w].pc = "write"
    /\ LET r == run[w]
           row == activities[r.activity_id]
       IN  /\ activities' = update_activity_trail_metrics(
                                r.activity_id,
                                Coalesce0(row.distance_on_trail) + r.distance_on_trail,
                                Coalesce0(row.time_on_trail) + r.time_on_trail)
           /\ run' = [Interfere(r.activity_id, w) EXCEPT ![w] =
                [r EXCEPT !.pc = "lb_pref", !.written = TRUE,
                          !.persisted =
                              IF row.present
                              THEN Some([distance_on_trail |->
                                           activities'[r.activity_id].distance_on_trail,
                                         time_on_trail |->
                                           activities'[r.activity_id].time_on_trail,
                                         last_matched |->
                                           activities'[r.activity_id].last_matched])
                              ELSE Null,
                          !.stored_before_write =
                              IF row.present
                              THEN Some(Coalesce0(row.distance_on_trail))
                              ELSE Null]]
    /\ UNCHANGED <<probe, driver, invocations, users, leaderboard_agg, now, faults, deletes, attributed>>

\* lines 580, 612, 629
Write(w) ==
    /\ run[w].pc = "write"
    /\ LET r == run[w]
           row == activities[r.activity_id]
       IN  /\ activities' = update_activity_trail_metrics(
                                r.activity_id, r.distance_on_trail, r.time_on_trail)
           /\ run' = [Interfere(r.activity_id, w) EXCEPT ![w] =
                [r EXCEPT !.pc = "lb_pref", !.written = TRUE,
                          !.persisted =
                              IF activities'[r.activity_id].present
                              THEN Some([distance_on_trail |->
                                           activities'[r.activity_id].distance_on_trail,
                                         time_on_trail |->
                                           activities'[r.activity_id].time_on_trail,
                                         last_matched |->
                                           activities'[r.activity_id].last_matched])
                              ELSE Null,
                          !.stored_before_write =
                              IF activities[r.activity_id].present
                              THEN Some(Coalesce0(
                                       activities[r.activity_id].distance_on_trail))
                              ELSE Null]]
    /\ UNCHANGED <<probe, driver, invocations, users, leaderboard_agg, now, faults, deletes, attributed>>

----------------------------------------------------------------------------
(* LeaderboardDeltaUpdater: update_leaderboard_after_trail_matching, one   *)
(* action per SQL statement.  Any statement may raise; the exception is    *)
(* caught at lines 548-552 and the function returns.                       *)

\* variant: the exception is not caught at lines 548-552 and lands in
\* the inner except of match_activity, which writes zeros
LbFailed_Escapes(w) ==
    /\ faults < MaxFaults
    /\ faults' = faults + 1
    /\ run' = [run EXCEPT ![w] = [run[w] EXCEPT !.pc = "write", !.lb = "failed",
                                                 !.lb_error = TRUE,
                                                 !.distance_on_trail = 0,
                                                 !.time_on_trail = 0,
                                                 !.message = "Matching failed"]]

LbFailed(w) ==
    /\ faults < MaxFaults
    /\ faults' = faults + 1
    /\ run' = [run EXCEPT ![w] = [run[w] EXCEPT !.pc = "done", !.lb = "failed",
                                                 !.lb_error = TRUE]]

\* variant: the preference is read but not acted upon
LbPref_IgnorePreference(w) ==
    /\ run[w].pc = "lb_pref"
    /\ \/ LbFailed(w)
       \/ /\ run' = [run EXCEPT ![w] = [run[w] EXCEPT !.pc = "lb_read"]]
          /\ UNCHANGED faults
    /\ UNCHANGED <<probe, driver, invocations, activities, users, leaderboard_agg, now, deletes, attributed>>

\* lines 475-482: SELECT show_on_leaderboards FROM users
LbPref(w) ==
    /\ run[w].pc = "lb_pref"
    /\ LET r == run[w]
       IN  \/ LbFailed(w)
           \/ /\ run' = [run EXCEPT ![w] =
                   IF users[r.athlete_id] = Null \/ ~users[r.athlete_id][1]
                   THEN [r EXCEPT !.pc = "done", !.lb = "skipped"]
                   ELSE [r EXCEPT !.pc = "lb_read"]]
              /\ UNCHANGED faults
    /\ UNCHANGED <<probe, driver, invocations, activities, users, leaderboard_agg, now, deletes, attributed>>

\* variant: no "if distance_delta == 0: return"
LbPlan_NoZeroCheck(r, row) ==
    [r EXCEPT !.pc = "lb_upsert",
              !.lb_delta = r.distance_on_trail - r.old_distance_on_trail,
              !.lb_keys = CrossKeys(WindowKeys[row.start_date_local[1]],
                                    AggTypes(row.type), r.athlete_id)]

\* lines 501-519: delta, window keys, agg types
LbPlan(r, row) ==
    LET distance_delta == r.distance_on_trail - r.old_distance_on_trail
    IN  IF distance_delta = 0
        THEN [r EXCEPT !.pc = "done", !.lb = "skipped"]
        ELSE [r EXCEPT !.pc = "lb_upsert",
                       !.lb_delta = distance_delta,
                       !.lb_keys = CrossKeys(WindowKeys[row.start_date_local[1]],
                                             AggTypes(row.type), r.athlete_id)]

\* lines 484-519: SELECT start_date_local, type FROM activities
LbRead(w) ==
    /\ run[w].pc = "lb_read"
    /\ LET r == run[w]
           row == activities[r.activity_id]
       IN  \/ LbFailed(w)
           \/ /\ run' = [run EXCEPT ![w] =
                   IF ~row.present THEN [r EXCEPT !.pc = "done", !.lb = "skipped"]
                   ELSE IF row.start_date_local = Null
                   THEN [r EXCEPT !.pc = "done", !.lb = "skipped"]
                   ELSE LbPlan(r, row)]
              /\ UNCHANGED faults
    /\ UNCHANGED <<probe, driver, invocations, activities, users, leaderboard_agg, now, deletes, attributed>>

\* variant: ON CONFLICT DO UPDATE SET value = EXCLUDED.value
Upsert_Overwrite(agg, key, value) ==
    IF key \in DOMAIN agg THEN [agg EXCEPT ![key] = value]
    ELSE agg @@ (key :> value)

\* INSERT ... ON CONFLICT DO UPDATE SET value = leaderboard_agg.value + EXCLUDED.value
Upsert(agg, key, value) ==
    IF key \in DOMAIN agg THEN [agg EXCEPT ![key] = @ + value]
    ELSE agg @@ (key :> value)

\* variant: the loops end after the first row
LbUpsert_StopAfterFirst(w) ==
    /\ run[w].pc = "lb_upsert"
    /\ LET r == run[w]
           key == r.lb_keys[r.lb_idx + 1]
       IN  /\ leaderboard_agg' = Upsert(leaderboard_agg, key, r.lb_delta)
           /\ attributed' = IF key \in DOMAIN attributed
                            THEN [attributed EXCEPT ![key] = @ + r.lb_delta]
                            ELSE attributed @@ (key :> r.lb_delta)
           /\ run' = [run EXCEPT ![w] =
                         [r EXCEPT !.lb_idx = @ + 1, !.pc = "done", !.lb = "applied"]]
    /\ UNCHANGED <<probe, driver, invocations, activities, users, now, faults, deletes>>

\* lines 523-544: one iteration of the nested loops
LbUpsert(w) ==
    /\ run[w].pc = "lb_upsert"
    /\ LET r == run[w]
           key == r.lb_keys[r.lb_idx + 1]
       IN  \/ /\ LbFailed(w)
              /\ UNCHANGED <<leaderboard_agg, attributed>>
           \/ /\ leaderboard_agg' = Upsert(leaderboard_agg, key, r.lb_delta)
              /\ attributed' = IF key \in DOMAIN attributed
                               THEN [attributed EXCEPT ![key] = @ + r.lb_delta]
                               ELSE attributed @@ (key :> r.lb_delta)
              /\ run' = [run EXCEPT ![w] =
                   IF r.lb_idx + 1 = Len(r.lb_keys)
                   THEN [r EXCEPT !.lb_idx = @ + 1, !.pc = "done", !.lb = "applied"]
                   ELSE [r EXCEPT !.lb_idx = @ + 1]]
              /\ UNCHANGED faults
    /\ UNCHANGED <<probe, driver, invocations, activities, users, now, deletes>>

\* match_activity returns its result to the handler; the frame is gone
Return(w) ==
    /\ run[w].pc = "done"
    /\ run' = [run EXCEPT ![w] = NoRun]
    /\ UNCHANGED <<probe, driver, invocations, activities, users, leaderboard_agg, now, faults, deletes, attributed>>

\* variant: last_matched is stamped by a statement of its own, and the
\* invocation is cut off after it
CutOff_AfterStamp(w) ==
    /\ run[w].pc = "write"
    /\ faults < MaxFaults
    /\ faults' = faults + 1
    /\ activities' = [activities EXCEPT ![run[w].activity_id].last_matched = Some(now)]
    /\ run' = [run EXCEPT ![w] =
                 [NoRun EXCEPT !.activity_id = run[w].activity_id,
                               !.message = "Task timed out"]]
    /\ UNCHANGED <<probe, driver, invocations, users, leaderboard_agg, now, deletes, attributed>>

\* the invocation is cut off (45 s timeout of its caller) between two
\* statements; the frame is lost, nothing is returned
CutOff(w) ==
    /\ run[w].pc \in {"write", "lb_pref", "lb_read", "lb_upsert"}
    /\ faults < MaxFaults
    /\ faults' = faults + 1
    /\ run' = [run EXCEPT ![w] =
                 [NoRun EXCEPT !.activity_id = run[w].activity_id,
                               !.message = "Task timed out"]]
    /\ UNCHANGED <<probe, driver, invocations, activities, users, leaderboard_agg, now, deletes, attributed>>

----------------------------------------------------------------------------
(* Other writers of the two tables.                                        *)

\* reset_last_matched handler, single activity:
\* UPDATE activities SET last_matched = NULL WHERE id = :activity_id
ResetLastMatched(id) ==
    /\ activities[id].present
    /\ activities[id].last_matched # Null
    /\ activities' = [activities EXCEPT ![id].last_matched = Null]
    /\ UNCHANGED <<probe, driver, invocations, users, leaderboard_agg, run, now, faults, deletes, attributed>>

\* UPDATE leaderboard_agg SET value = value - :value WHERE key (no insert)
Subtract(agg, keys, value) ==
    [k \in DOMAIN agg |-> IF k \in keys THEN agg[k] - value ELSE agg[k]]

\* the keys delete_leaderboard_aggregates updates for a row
DeleteKeys(row) ==
    IF users[row.athlete_id] = Null \/ ~users[row.athlete_id][1] THEN {}
    ELSE IF row.start_date_local = Null THEN {}
    ELSE SeqRange(CrossKeys(get_window_keys(row.start_date_local[1]),
                            AggTypes(row.type), row.athlete_id))

\* webhook_processor, aspect_type == "delete":
\* delete_leaderboard_aggregates, then delete_activity
DeleteActivity(id) ==
    /\ activities[id].present
    /\ deletes < MaxDeletes
    /\ deletes' = deletes + 1
    /\ LET row == activities[id]
       IN  /\ leaderboard_agg' = Subtract(leaderboard_agg, DeleteKeys(row), row.distance)
           /\ attributed' = Subtract(attributed, DeleteKeys(row),
                                     Coalesce0(row.distance_on_trail))
    /\ activities' = [activities EXCEPT ![id] = NoRow]
    /\ run' = Interfere(id, "nobody")
    /\ UNCHANGED <<probe, driver, invocations, users, now, faults>>

----------------------------------------------------------------------------
(* BatchDriver: match_unmatched_activities.  One action for the SELECT,    *)
(* one per iteration of the loop over the selected activities.             *)

\* the orders in which a set of rows can be returned
Orders(S) ==
    { f \in [1..Cardinality(S) -> S] :
        \A i, j \in 1..Cardinality(S) : i # j => f[i] # f[j] }

\* lines 42-65: SELECT ... WHERE last_matched IS NULL ORDER BY start_date
\* DESC LIMIT :limit.  The rows of this model carry no start_date (UTC):
\* the result is the first rows of any order of the unmatched rows.
get_unmatched_activities(limit) ==
    LET unmatched == { id \in DispatchIds :
                          activities[id].present /\ activities[id].last_matched = Null }
    IN  { SubSeq(order, 1, Min(limit, Len(order))) : order \in Orders(unmatched) }

\* lines 114-125: the SELECT, and the return when nothing was found
DriverSelect ==
    /\ driver.pc = "idle"
    /\ \E unmatched_activities \in get_unmatched_activities(BATCH_SIZE) :
          driver' = IF unmatched_activities = << >>
                    THEN [NoDriver EXCEPT !.pc = "done"]
                    ELSE [NoDriver EXCEPT !.pc = "loop",
                                          !.selected = unmatched_activities,
                                          !.total_found = Len(unmatched_activities)]
    /\ UNCHANGED <<probe, invocations, activities, users, leaderboard_agg, run, now,
                   faults, deletes, attributed>>

\* the frame after invoke_match_activity returned ok for selected[idx + 1]
Counted(d, ok) ==
    [d EXCEPT !.idx = @ + 1,
              !.queued_count = IF ok THEN @ + 1 ELSE @,
              !.failed_to_queue_count = IF ok THEN @ ELSE @ + 1,
              !.attempted = Append(@, d.selected[d.idx + 1]),
              !.results = Append(@, ok),
              !.pc = IF d.idx + 1 = Len(d.selected) THEN "done" ELSE "loop"]

\* variant: the loop ends at the first activity that cannot be queued
DriverInvoke_StopOnFailure ==
    /\ driver.pc = "loop"
    /\ LET activity_id == driver.selected[driver.idx + 1]
       IN  \/ /\ invocations[activity_id] < MaxPending
              /\ invocations' = [invocations EXCEPT ![activity_id] = @ + 1]
              /\ driver' = Counted(driver, TRUE)
              /\ UNCHANGED faults
           \/ /\ faults < MaxFaults
              /\ faults' = faults + 1
              /\ driver' = [Counted(driver, FALSE) EXCEPT !.pc = "done"]
              /\ UNCHANGED invocations
           \/ /\ invocations[activity_id] >= MaxPending
              /\ driver' = [Counted(driver, FALSE) EXCEPT !.pc = "done"]
              /\ UNCHANGED <<invocations, faults>>
    /\ UNCHANGED <<probe, activities, users, leaderboard_agg, run, now, deletes,
                   attributed>>

\* lines 136-147: one iteration of the loop.  invoke_match_activity
\* (68-92) queues an asynchronous invocation and returns True, or catches
\* the exception of a refused invoke and returns False
DriverInvoke ==
    /\ driver.pc = "loop"
    /\ LET activity_id == driver.selected[driver.idx + 1]
       IN  \/ /\ invocations[activity_id] < MaxPending
              /\ invocations' = [invocations EXCEPT ![activity_id] = @ + 1]
              /\ driver' = Counted(driver, TRUE)
              /\ UNCHANGED faults
           \/ /\ faults < MaxFaults
              /\ faults' = faults + 1
              /\ driver' = Counted(driver, FALSE)
              /\ UNCHANGED invocations
           \/ /\ invocations[activity_id] >= MaxPending
              /\ driver' = Counted(driver, FALSE)
              /\ UNCHANGED <<invocations, faults>>
    /\ UNCHANGED <<probe, activities, users, leaderboard_agg, run, now, deletes,
                   attributed>>

\* lines 149-157: the handler returns its counts; the frame is gone
DriverReturn ==
    /\ driver.pc = "done"
    /\ driver' = NoDriver
    /\ UNCHANGED <<probe, invocations, activities, users, leaderboard_agg, run, now,
                   faults, deletes, attributed>>

\* handler of match_activity_trail, asynchronous invocation: a queued
\* invocation is started when every earlier call has returned.  The clock
\* stops at MaxClock: later stamps are equal.
StartQueued(w, id) ==
    /\ \A v \in Workers : run[v].pc = "idle"
    /\ invocations[id] > 0
    /\ invocations' = [invocations EXCEPT ![id] = @ - 1]
    /\ now' = Min(now + 1, MaxClock)
    /\ \E main_ok, spurs_ok \in BOOLEAN :
         run' = [run EXCEPT ![w] =
                    BeforeWrite([NoRun EXCEPT !.activity_id = id], main_ok, spurs_ok)]
    /\ UNCHANGED <<probe, driver, activities, users, leaderboard_agg, faults, deletes,
                   attributed>>

----------------------------------------------------------------------------
(* Webhook processor: create and update events.                            *)

\* what fetch_activity_details returns for an event
HookActivities ==
    { [athlete_id |-> 1, polyline |-> PolyNear, moving_time |-> 500,
       distance |-> 25000, start_date_local |-> Some(Date2), type |-> "Ride"],
      [athlete_id |-> 1, polyline |-> PolyPartial, moving_time |-> 400,
       distance |-> 35000, start_date_local |-> Some(Date1), type |-> "Run"] }

\* lines 160-235: INSERT ... ON CONFLICT (athlete_id, strava_activity_id)
\* DO UPDATE; the trail metrics and last_matched of an existing row stay
store_activity(id, activity) ==
    [activities EXCEPT ![id] =
        IF activities[id].present
        THEN [activities[id] EXCEPT !.polyline = activity.polyline,
                                    !.moving_time = activity.moving_time,
                                    !.distance = activity.distance,
                                    !.start_date_local = activity.start_date_local,
                                    !.type = activity.type]
        ELSE ActivityRow(activity.athlete_id, activity.polyline, activity.moving_time,
                         activity.distance, activity.start_date_local, activity.type)]

RECURSIVE UpsertAll(_, _, _)
UpsertAll(agg, keys, value) ==
    IF keys = << >> THEN agg
    ELSE UpsertAll(Upsert(agg, Head(keys), value), Tail(keys), value)

\* lines 342-450: update_leaderboard_aggregates, called with the table as
\* store_activity left it: old_distance is read from the row just stored
update_leaderboard_aggregates(stored, agg, id, activity) ==
    LET athlete_id == stored[id].athlete_id
    IN  IF users[athlete_id] = Null \/ ~users[athlete_id][1] THEN agg
        ELSE IF activity.start_date_local = Null THEN agg
        ELSE LET old_distance == IF stored[id].present THEN stored[id].distance ELSE 0
                 distance_delta == activity.distance - old_distance
             IN  UpsertAll(agg,
                           CrossKeys(get_window_keys(activity.start_date_local[1]),
                                     AggTypes(activity.type), athlete_id),
                           distance_delta)

\* process_webhook_event (595-669), aspect_type "create" or "update", for
\* an athlete with a users row: store_activity, update_leaderboard_aggregates,
\* trigger_trail_matching (255-273: an asynchronous invocation; a refused
\* invoke is ignored)
WebhookStore(id, fetched) ==
    /\ now < MaxClock
    /\ now' = now + 1
    /\ LET activity == IF activities[id].present
                       THEN [fetched EXCEPT !.athlete_id = activities[id].athlete_id]
                       ELSE fetched
           stored == store_activity(id, activity)
       IN  /\ users[activity.athlete_id] # Null
           /\ activities' = stored
           /\ leaderboard_agg' =
                  update_leaderboard_aggregates(stored, leaderboard_agg, id, activity)
           /\ attributed' =
                  [k \in DOMAIN leaderboard_agg' |->
                      IF k \in DOMAIN attributed THEN attributed[k] ELSE 0]
    /\ invocations' = IF invocations[id] < MaxPending
                      THEN [invocations EXCEPT ![id] = @ + 1]
                      ELSE invocations
    /\ run' = Interfere(id, "nobody")
    /\ UNCHANGED <<probe, driver, users, faults, deletes>>

----------------------------------------------------------------------------
(* Full recalculation: admin_recalculate_leaderboard.                      *)

\* line 35
RECALC_START_DATE == [y |-> 2026, m |-> 1, d |-> 1]

\* lines 155-169: activities JOIN users WHERE show_on_leaderboards = true
\* AND start_date_local >= :start_date AND distance_on_trail IS NOT NULL
RecalcRecords ==
    { id \in DispatchIds :
        /\ activities[id].present
        /\ users[activities[id].athlete_id] = Some(TRUE)
        /\ activities[id].start_date_local # Null
        /\ DaysFromCivil(activities[id].start_date_local[1].y,
                         activities[id].start_date_local[1].m,
                         activities[id].start_date_local[1].d)
              >= DaysFromCivil(RECALC_START_DATE.y, RECALC_START_DATE.m,
                               RECALC_START_DATE.d)
        /\ activities[id].distance_on_trail # Null }

\* lines 211-228: the keys an activity record is accumulated under
RecalcKeys(id) ==
    SeqRange(CrossKeys(get_window_keys(activities[id].start_date_local[1]),
                       AggTypes(activities[id].type), activities[id].athlete_id))

RECURSIVE RecalcSum(_, _)
RecalcSum(ids, k) ==
    IF ids = {} THEN 0
    ELSE LET id == CHOOSE i \in ids : TRUE
         IN  (IF k \in RecalcKeys(id) THEN activities[id].distance_on_trail[1] ELSE 0)
             + RecalcSum(ids \ {id}, k)

RECURSIVE RecalcDistanceSum(_, _)
RecalcDistanceSum(ids, k) ==
    IF ids = {} THEN 0
    ELSE LET id == CHOOSE i \in ids : TRUE
         IN  (IF k \in RecalcKeys(id) THEN activities[id].distance ELSE 0)
             + RecalcDistanceSum(ids \ {id}, k)

\* variant: the query selects a.distance
recalculate_leaderboard_TotalDistance ==
    /\ \A w \in Workers : run[w].pc \in {"idle", "done"}
    /\ leaderboard_agg' =
          [k \in UNION { RecalcKeys(id) : id \in RecalcRecords } |->
              RecalcDistanceSum(RecalcRecords, k)]
    /\ attributed' = leaderboard_agg'
    /\ UNCHANGED <<probe, driver, invocations, activities, users, run, now, faults,
                   deletes>>

\* lines 104-284: DELETE FROM leaderboard_agg, then one row per key of the
\* selected activities holding the sum of their distance_on_trail.  Run by
\* an administrator while no call of the matcher is in progress.
recalculate_leaderboard ==
    /\ \A w \in Workers : run[w].pc \in {"idle", "done"}
    /\ leaderboard_agg' =
          [k \in UNION { RecalcKeys(id) : id \in RecalcRecords } |->
              RecalcSum(RecalcRecords, k)]
    /\ attributed' = leaderboard_agg'
    /\ UNCHANGED <<probe, driver, invocations, activities, users, run, now, faults,
                   deletes>>

----------------------------------------------------------------------------

Next ==
    \/ \E w \in Workers, id \in DispatchIds : Start(w, id)
    \/ \E w \in Workers : Write(w)
    \/ \E w \in Workers : LbPref(w)
    \/ \E w \in Workers : LbRead(w)
    \/ \E w \in Workers : LbUpsert(w)
    \/ \E w \in Workers : Return(w)
    \/ \E id \in ActIds : ResetLastMatched(id)

\* the matching engine and the reset endpoint
Spec == Init /\ [][Next]_vars

NextAll ==
    \/ Next
    \/ \E id \in ActIds : DeleteActivity(id)

\* ... together with the webhook processor's events
SpecAll == Init /\ [][NextAll]_vars

NextSeq ==
    \/ \E w \in Workers, id \in DispatchIds : StartSeq(w, id)
    \/ \E w \in Workers : Write(w)
    \/ \E w \in Workers : LbPref(w)
    \/ \E w \in Workers : LbRead(w)
    \/ \E w \in Workers : LbUpsert(w)
    \/ \E w \in Workers : Return(w)
    \/ \E id \in ActIds : ResetLastMatched(id)

\* the matching engine under a sequential dispatch
SpecSeq == Init /\ [][NextSeq]_vars

NextCut ==
    \/ Next
    \/ \E w \in Workers : CutOff(w)

\* the matching engine with invocations that may be cut off
SpecCut == Init /\ [][NextCut]_vars

NextSeqCut ==
    \/ NextSeq
    \/ \E w \in Workers : CutOff(w)

\* a sequential dispatch whose invocations may be cut off and delivered
\* again
SpecSeqCut == Init /\ [][NextSeqCut]_vars

NextDriver ==
    \/ DriverSelect
    \/ DriverInvoke
    \/ DriverReturn
    \/ \E w \in Workers, id \in DispatchIds : StartQueued(w, id)
    \/ \E w \in Workers : Write(w)
    \/ \E w \in Workers : LbPref(w)
    \/ \E w \in Workers : LbRead(w)
    \/ \E w \in Workers : LbUpsert(w)
    \/ \E w \in Workers : Return(w)

\* two unmatched activities, the second without a polyline or with a
\* truncated one
InitDriver ==
    /\ Init
    /\ activities[2].polyline \in {PolyEmpty, PolyTruncated}

\* the batch driver, run again and again, and the invocations it queues
SpecDriver == InitDriver /\ [][NextDriver]_vars

\* a step of the batch driver
DriverStep == DriverSelect \/ DriverInvoke \/ DriverReturn

\* a step of a call of match_activity that has been started
MatcherStep ==
    \E w \in Workers :
        Write(w) \/ LbPref(w) \/ LbRead(w) \/ LbUpsert(w) \/ Return(w)

\* ... where the driver keeps running (it is scheduled again and again),
\* every queued invocation is eventually started (the platform delivers
\* it, though not while another call is running) and every call that has
\* been started runs to its end
FairSpecDriver ==
    /\ InitDriver /\ [][NextDriver]_vars
    /\ WF_vars(DriverStep)
    /\ \A id \in ActIds : SF_vars(\E w \in Workers : StartQueued(w, id))
    /\ WF_vars(MatcherStep)

NextHook ==
    \/ \E id \in DispatchIds, fetched \in HookActivities : WebhookStore(id, fetched)
    \/ \E w \in Workers, id \in DispatchIds : StartQueued(w, id)
    \/ \E w \in Workers : Write(w)
    \/ \E w \in Workers : LbPref(w)
    \/ \E w \in Workers : LbRead(w)
    \/ \E w \in Workers : LbUpsert(w)
    \/ \E w \in Workers : Return(w)

\* create and update events and the matching they trigger
SpecHook == Init /\ [][NextHook]_vars

\* the activities are those of an athlete who is visible on leaderboards
InitRecalc ==
    /\ Init
    /\ \A id \in ActIds : users[activities[id].athlete_id] = Some(TRUE)

NextRecalc ==
    \/ \E w \in Workers, id \in DispatchIds : StartSeq(w, id)
    \/ \E w \in Workers : Write(w)
    \/ \E w \in Workers : LbPref(w)
    \/ \E w \in Workers : LbRead(w)
    \/ \E w \in Workers : LbUpsert(w)
    \/ \E w \in Workers : Return(w)
    \/ recalculate_leaderboard

\* a sequential dispatch and the administrator's full recalculation
SpecRecalc == InitRecalc /\ [][NextRecalc]_vars

----------------------------------------------------------------------------
(* calculate_trail_intersection called on its own, one action per stage.   *)

\* bound on the number of points of the activity
MaxPoints == 3

\* activity points (lat, lon): on the main trail, 22 m north of it, 44 m
\* from both trails, 220 m north, and far away
ProbePoints ==
    { <<0, 20>>, <<20, 40>>, <<20, 80>>, <<40, 60>>, <<200, 40>>, <<400, 400>> }

ProbeTolerances == {0, 5, 25, 50}

\* a collection of two lines along lat 0 with a gap from lon 30 to lon 90
GapGeoJSON ==
    << [type |-> "MultiLineString",
        coordinates |-> << << <<0, 0>>, <<30, 0>> >>,
                           << <<90, 0>>, <<100, 0>> >> >>] >>

\* a collection of one line of 20 points along lat 0: two short edges
\* around a long one from lon -290 to lon 300, then short edges
LongLineGeoJSON ==
    << [type |-> "LineString",
        coordinates |-> [i \in 1..20 |->
                            IF i = 1 THEN <<-300, 0>>
                            ELSE IF i = 2 THEN <<-290, 0>>
                            ELSE <<300 + 10 * (i - 3), 0>>]] >>

\* the networks: both collections, one of them, no segment at all, and
\* the segments of the two collections above
ProbeNetworks ==
    { load_trail_data_from_s3(main_ok, spurs_ok) : main_ok, spurs_ok \in BOOLEAN }
    \cup { FeaturesToSegments(GapGeoJSON), FeaturesToSegments(LongLineGeoJSON) }

\* the return statement of a stage
ReturnAt(stage, p) ==
    LET res == calculate_trail_intersection(p.activity_coords, p.trail_segments,
                                            p.tolerance_meters)
    IN  [p EXCEPT !.pc = "returned", !.returned_at = stage,
                  !.distance_on_trail = res.distance_on_trail,
                  !.ratio_num = res.ratio_num, !.ratio_den = res.ratio_den]

\* variant: the bounding boxes are computed but never lead to a return
StageA_NoBBoxReturn ==
    /\ probe.pc = "call"
    /\ probe' = IF probe.activity_coords = << >> \/ probe.trail_segments = << >>
                THEN ReturnAt("empty", probe)
                ELSE [probe EXCEPT !.pc = "sample"]
    /\ UNCHANGED <<activities, users, leaderboard_agg, run, now, faults, deletes,
                   attributed, driver, invocations>>

\* lines 217-250: the empty check and OPTIMIZATION 1
StageA ==
    /\ probe.pc = "call"
    /\ probe' = IF probe.activity_coords = << >> \/ probe.trail_segments = << >>
                THEN ReturnAt("empty", probe)
                ELSE IF BBoxSeparated(probe.activity_coords,
                                      Flatten(probe.trail_segments),
                                      probe.tolerance_meters)
                THEN ReturnAt("bbox", probe)
                ELSE [probe EXCEPT !.pc = "sample"]
    /\ UNCHANGED <<activities, users, leaderboard_agg, run, now, faults, deletes,
                   attributed, driver, invocations>>

\* lines 252-292: OPTIMIZATION 2
StageB ==
    /\ probe.pc = "sample"
    /\ probe' = IF ~FoundNearby(probe.activity_coords, probe.trail_segments,
                                probe.tolerance_meters)
                THEN ReturnAt("sample", [probe EXCEPT !.sampled = TRUE])
                ELSE [probe EXCEPT !.pc = "edges", !.sampled = TRUE]
    /\ UNCHANGED <<activities, users, leaderboard_agg, run, now, faults, deletes,
                   attributed, driver, invocations>>

\* lines 294-357: the per-edge loop and the result
StageC ==
    /\ probe.pc = "edges"
    /\ probe' = ReturnAt("edges", [probe EXCEPT !.classified = TRUE])
    /\ UNCHANGED <<activities, users, leaderboard_agg, run, now, faults, deletes,
                   attributed, driver, invocations>>

InitMatch ==
    /\ activities = [i \in DispatchIds |-> NoRow]
    /\ users = [a \in Athletes |-> Null]
    /\ leaderboard_agg = << >>
    /\ run = [w \in Workers |-> NoRun]
    /\ now = 0
    /\ faults = 0
    /\ deletes = 0
    /\ attributed = << >>
    /\ driver = NoDriver
    /\ invocations = [i \in DispatchIds |-> 0]
    /\ \E n \in 0..MaxPoints :
         \E coords \in [1..n -> ProbePoints] :
           \E network \in ProbeNetworks, tolerance \in ProbeTolerances :
              probe = [NoProbe EXCEPT !.pc = "call",
                                      !.activity_coords = coords,
                                      !.trail_segments = network,
                                      !.tolerance_meters = tolerance]

NextMatch ==
    \/ StageA
    \/ StageB
    \/ StageC

\* calculate_trail_intersection on every input of the bounded sets
SpecMatch == InitMatch /\ [][NextMatch]_vars

----------------------------------------------------------------------------
(* Properties                                                              *)

\* the call has loaded an existing activity row
Loaded(w) == run[w].pc # "idle" /\ ~run[w].missing /\ run[w].athlete_id # 0

\* the UPDATE of the call left zeros and a stamp in the row
PersistedZeros(w) ==
    /\ run[w].persisted # Null
    /\ run[w].persisted[1].distance_on_trail = Some(0)
    /\ run[w].persisted[1].time_on_trail = Some(0)
    /\ run[w].persisted[1].last_matched # Null
    /\ run[w].persisted[1].last_matched[1] \in 1..now

\* C1: when loading the trail network fails in a call on an existing
\* activity with a decodable polyline, the call goes on to its UPDATE,
\* which leaves distance_on_trail = 0, time_on_trail = 0 and a non-null
\* last_matched, and no exception leaves match_activity.
C1_TrailLoadFailurePersistsZeros ==
    \A w \in Workers :
        run[w].trail = "failed" =>
            /\ Loaded(w) /\ run[w].decoded = "ok"
            /\ ~run[w].raised
            /\ run[w].pc \in {"write", "lb_pref", "lb_read", "lb_upsert", "done"}
            /\ run[w].pc # "write" => PersistedZeros(w)

C1_Witness ==
    \E w \in Workers :
        /\ run[w].pc = "done" /\ run[w].trail = "failed"
        /\ run[w].old_distance_on_trail > 0
        /\ PersistedZeros(w) /\ ~run[w].raised

\* C2 (as claimed): when decoding the polyline fails, the call persists
\* distance_on_trail = 0, time_on_trail = 0 and a non-null last_matched.
C2_DecodeFailurePersistsZeros ==
    \A w \in Workers :
        (run[w].pc = "done" /\ run[w].decoded = "failed") => PersistedZeros(w)

\* C3 (as claimed): when the activity id has no row, the call ends with an
\* exception that reaches its caller, and nothing is persisted.
C3_NotFoundPropagates ==
    \A w \in Workers :
        (run[w].pc = "done" /\ run[w].missing) =>
            /\ run[w].raised
            /\ ~run[w].written /\ run[w].persisted = Null
            /\ run[w].lb = "none" /\ run[w].lb_idx = 0

\* C4: for an existing activity whose polyline is empty the call neither
\* decodes nor loads the trail network, raises nothing, and its UPDATE
\* leaves distance_on_trail = 0, time_on_trail = 0 and a non-null
\* last_matched.
C4_EmptyPolylinePersistsZeros ==
    \A w \in Workers :
        (Loaded(w) /\ run[w].polyline = << >>) =>
            /\ run[w].decoded = "none" /\ run[w].trail = "none"
            /\ ~run[w].raised
            /\ run[w].message = "No polyline data"
            /\ run[w].pc \in {"write", "lb_pref", "lb_read", "lb_upsert", "done"}
            /\ run[w].pc # "write" => PersistedZeros(w)

C4_Witness ==
    \E w \in Workers :
        /\ run[w].pc = "done" /\ Loaded(w) /\ run[w].polyline = << >>
        /\ PersistedZeros(w) /\ run[w].decoded = "none" /\ run[w].trail = "none"

\* C5 (as claimed): in every call, the old distance handed to the
\* leaderboard update is the distance_on_trail the row held immediately
\* before the call's own UPDATE (NULL read as 0).
C5_OldIsStoredBeforeOwnWrite ==
    \A w \in Workers :
        (run[w].written /\ run[w].stored_before_write # Null) =>
            run[w].old_distance_on_trail = run[w].stored_before_write[1]

\* C5 (amended): the old distance handed to the leaderboard update is the
\* one the call read before its own UPDATE; it is the distance_on_trail
\* the row held immediately before that UPDATE (NULL read as 0) in every
\* call during which nobody else changed the row between the call's
\* SELECT and its UPDATE.
C5_OldIsStoredBeforeWriteUnlessInterfered ==
    \A w \in Workers :
        (run[w].written /\ run[w].stored_before_write # Null /\ ~run[w].interfered) =>
            run[w].old_distance_on_trail = run[w].stored_before_write[1]

C5_Witness ==
    \E w \in Workers :
        /\ run[w].written /\ ~run[w].interfered
        /\ run[w].stored_before_write # Null
        /\ run[w].old_distance_on_trail > 0
        /\ run[w].distance_on_trail # run[w].old_distance_on_trail

\* C6: a leaderboard update whose new distance equals the old one changes
\* no aggregate row and creates none, whatever statement of it is executed.
C6_ZeroDeltaLeavesAggregates ==
    [][\A w \in Workers :
          (/\ run[w].pc \in {"lb_pref", "lb_read", "lb_upsert"}
           /\ run[w].distance_on_trail = run[w].old_distance_on_trail
           /\ run'[w] # run[w])
          => leaderboard_agg' = leaderboard_agg]_vars

\* a second call on an opted-in athlete's matched activity found the
\* same non-zero distance and has finished its leaderboard update
C6_Witness ==
    \E w \in Workers :
        /\ run[w].pc = "done" /\ run[w].lb = "skipped" /\ ~run[w].lb_error
        /\ users[run[w].athlete_id] = Some(TRUE)
        /\ activities[run[w].activity_id].start_date_local # Null
        /\ run[w].distance_on_trail = run[w].old_distance_on_trail
        /\ run[w].distance_on_trail > 0
        /\ leaderboard_agg # << >>

\* C7 (as claimed): the value of every aggregate row is the signed sum of
\* the distance_on_trail deltas attributed to its key since the row was
\* created.
C7_AggIsSumOfAttributedDeltas ==
    \A k \in DOMAIN leaderboard_agg : leaderboard_agg[k] = attributed[k]

\* the two calls are the only ones dispatched so far, both have finished,
\* and no leaderboard statement has failed
OnlyTwoCalls(w1, w2) ==
    /\ w1 # w2
    /\ run[w1].pc = "done" /\ run[w2].pc = "done"
    /\ now = 2 /\ faults = 0

\* C8: when two calls on the same activity have both read the same
\* pre-update distance and both have applied their delta, every aggregate
\* row of the activity has changed by twice the delta of the one real
\* change of the stored distance.
C8_DuplicateRunsDoubleApply ==
    \A w1, w2 \in Workers :
        (/\ OnlyTwoCalls(w1, w2)
         /\ run[w1].activity_id = run[w2].activity_id
         /\ run[w1].lb = "applied" /\ run[w2].lb = "applied"
         /\ run[w1].old_distance_on_trail = run[w2].old_distance_on_trail
         /\ run[w1].distance_on_trail = run[w2].distance_on_trail)
        => /\ activities[run[w1].activity_id].distance_on_trail
                 = Some(run[w1].distance_on_trail)
           /\ \A i \in 1..Len(run[w1].lb_keys) :
                 /\ run[w1].lb_keys[i] \in DOMAIN leaderboard_agg
                 /\ leaderboard_agg[run[w1].lb_keys[i]]
                       = 2 * (run[w1].distance_on_trail
                              - run[w1].old_distance_on_trail)

C8_Witness ==
    \E w1, w2 \in Workers :
        /\ OnlyTwoCalls(w1, w2)
        /\ run[w1].activity_id = run[w2].activity_id
        /\ run[w1].lb = "applied" /\ run[w2].lb = "applied"
        /\ run[w1].old_distance_on_trail = 0 /\ run[w2].old_distance_on_trail = 0
        /\ run[w1].distance_on_trail > 0
        /\ run[w1].distance_on_trail = run[w2].distance_on_trail
        /\ run[w2].interfered
        /\ Len(run[w1].lb_keys) = 6
        /\ \A i \in 1..6 :
              leaderboard_agg[run[w1].lb_keys[i]] = 2 * run[w1].distance_on_trail

\* the keys an activity contributes to: those of its windows and buckets,
\* if its athlete is visible on leaderboards
ContributionKeys(id) ==
    LET row == activities[id]
    IN  IF ~row.present THEN {}
        ELSE IF users[row.athlete_id] # Some(TRUE) THEN {}
        ELSE IF row.start_date_local = Null THEN {}
        ELSE SeqRange(CrossKeys(get_window_keys(row.start_date_local[1]),
                                AggTypes(row.type), row.athlete_id))

RECURSIVE StoredSum(_, _)
StoredSum(ids, k) ==
    IF ids = {} THEN 0
    ELSE LET id == CHOOSE i \in ids : TRUE
         IN  (IF k \in ContributionKeys(id)
              THEN Coalesce0(activities[id].distance_on_trail) ELSE 0)
             + StoredSum(ids \ {id}, k)

\* what running the calls one after the other leaves in leaderboard_agg:
\* a row for every key some activity with a non-zero distance contributes
\* to, holding the sum of those distances
AggAsSequential ==
    /\ DOMAIN leaderboard_agg =
          UNION { IF Coalesce0(activities[id].distance_on_trail) # 0
                  THEN ContributionKeys(id) ELSE {} : id \in ActIds }
    /\ \A k \in DOMAIN leaderboard_agg : leaderboard_agg[k] = StoredSum(ActIds, k)

\* C9: when two overlapping or consecutive calls on two different
\* activities have finished, each activity holds the metrics its own call
\* computed and the aggregates are those of running the two calls one
\* after the other, whatever the interleaving.
C9_DifferentActivitiesCommute ==
    \A w1, w2 \in Workers :
        (OnlyTwoCalls(w1, w2) /\ run[w1].activity_id # run[w2].activity_id)
        => /\ \A w \in {w1, w2} :
                 run[w].written =>
                    /\ activities[run[w].activity_id].distance_on_trail
                          = Some(run[w].distance_on_trail)
                    /\ activities[run[w].activity_id].time_on_trail
                          = Some(run[w].time_on_trail)
           /\ AggAsSequential

\* two calls on activities of the same athlete, window and bucket
C9_Witness ==
    \E w1, w2 \in Workers :
        /\ OnlyTwoCalls(w1, w2)
        /\ run[w1].activity_id # run[w2].activity_id
        /\ run[w1].lb = "applied" /\ run[w2].lb = "applied"
        /\ run[w1].distance_on_trail > 0 /\ run[w2].distance_on_trail > 0
        /\ run[w1].lb_keys = run[w2].lb_keys
        /\ leaderboard_agg[run[w1].lb_keys[1]]
              = run[w1].distance_on_trail + run[w2].distance_on_trail

\* C10: a failing statement of the leaderboard update ends the call with
\* its result and without an exception; the row keeps the
\* distance_on_trail, time_on_trail and last_matched the call's UPDATE
\* wrote: the failing step changes no activity row and the call executes
\* no further UPDATE.
C10_LeaderboardFailureSwallowed ==
    /\ [](\A w \in Workers :
            run[w].lb_error =>
               /\ run[w].pc = "done" /\ run[w].lb = "failed"
               /\ ~run[w].raised
               /\ run[w].persisted # Null
               /\ run[w].persisted[1].distance_on_trail
                     = Some(run[w].distance_on_trail)
               /\ run[w].persisted[1].time_on_trail = Some(run[w].time_on_trail)
               /\ run[w].persisted[1].last_matched # Null)
    /\ [][\A w \in Workers :
             (run'[w].lb_error /\ ~run[w].lb_error) => activities' = activities]_vars

\* an upsert failed after another had been applied, for a call that had
\* persisted a non-zero distance
C10_Witness ==
    \E w \in Workers :
        /\ run[w].lb_error /\ run[w].pc = "done"
        /\ run[w].lb_idx >= 1
        /\ run[w].distance_on_trail > 0
        /\ activities[run[w].activity_id].distance_on_trail
              = Some(run[w].distance_on_trail)

\* the athlete of the call is visible on leaderboards
OptedIn(w) == users[run[w].athlete_id] = Some(TRUE)

\* C11: for an athlete who has opted out of leaderboards or has no
\* preference row the leaderboard update is a no-op: the call never gets
\* to read the activity or to upsert, and none of its steps creates or
\* changes an aggregate row, whatever the old and new distances are.
C11_OptedOutIsNoOp ==
    /\ [](\A w \in Workers :
            (Loaded(w) /\ ~OptedIn(w)) =>
               /\ run[w].pc \notin {"lb_read", "lb_upsert"}
               /\ run[w].lb \in {"none", "skipped", "failed"}
               /\ run[w].lb_idx = 0)
    /\ [][\A w \in Workers :
             (Loaded(w) /\ ~OptedIn(w) /\ run'[w] # run[w])
             => leaderboard_agg' = leaderboard_agg]_vars

\* an opted-out athlete's activity went from 0 to a non-zero distance and
\* no row of the athlete exists
C11_Witness ==
    \E w \in Workers :
        /\ run[w].pc = "done" /\ run[w].lb = "skipped" /\ ~run[w].lb_error
        /\ users[run[w].athlete_id] = Some(FALSE)
        /\ activities[run[w].activity_id].start_date_local # Null
        /\ run[w].distance_on_trail > 0
        /\ run[w].old_distance_on_trail = 0
        /\ activities[run[w].activity_id].distance_on_trail
              = Some(run[w].distance_on_trail)
        /\ \A k \in DOMAIN leaderboard_agg : k[4] # run[w].athlete_id

\* the buckets an activity type counts for
Buckets(activity_type) ==
    {"all"} \cup (IF activity_type \in {"Run", "Walk"} THEN {"foot"} ELSE {})
            \cup (IF activity_type = "Ride" THEN {"bike"} ELSE {})

\* the rows an activity contributes to: week, month and year of its
\* start date, for each bucket of its type
ExpectedRows(id) ==
    LET row == activities[id]
        dt  == row.start_date_local[1]
        monday == CivilFromDays(DaysFromCivil(dt.y, dt.m, dt.d) - Weekday(dt))
    IN  { <<wk, "distance", b, row.athlete_id>> :
            wk \in { <<"week", monday.y, monday.m, monday.d>>,
                     <<"month", dt.y, dt.m, 0>>,
                     <<"year", dt.y, 0, 0>> },
            b \in Buckets(row.type) }

\* C12: for an opted-in athlete and a non-zero delta the leaderboard
\* update upserts exactly the rows (window, bucket) for the week, month
\* and year of the activity and the buckets all, foot (Run, Walk) and
\* bike (Ride), each once: a row is created with value = delta when
\* absent and has delta added otherwise, and no other row changes.
C12_UpsertsExactlyWindowBucketRows ==
    /\ [](/\ \A t \in {"Run", "Walk", "Ride", "Hike", "Swim", ""} :
                SeqRange(AggTypes(t)) = Buckets(t)
          /\ \A w \in Workers :
                (run[w].pc = "lb_upsert" \/ run[w].lb = "applied") =>
                   /\ OptedIn(w)
                   /\ run[w].lb_delta
                         = run[w].distance_on_trail - run[w].old_distance_on_trail
                   /\ run[w].lb_delta # 0
                   /\ SeqRange(run[w].lb_keys) = ExpectedRows(run[w].activity_id)
                   /\ Len(run[w].lb_keys)
                         = Cardinality(ExpectedRows(run[w].activity_id))
                   /\ Len(run[w].lb_keys)
                         = 3 * Cardinality(Buckets(activities[run[w].activity_id].type))
                   /\ run[w].lb = "applied" <=> run[w].pc # "lb_upsert"
                   /\ run[w].lb = "applied" => run[w].lb_idx = Len(run[w].lb_keys))
    /\ [][\/ leaderboard_agg' = leaderboard_agg
          \/ \E w \in Workers :
               LET key == run[w].lb_keys[run[w].lb_idx + 1]
               IN  /\ run[w].pc = "lb_upsert"
                   /\ run'[w].lb_idx = run[w].lb_idx + 1
                   /\ DOMAIN leaderboard_agg' = DOMAIN leaderboard_agg \cup {key}
                   /\ leaderboard_agg'[key] =
                         IF key \in DOMAIN leaderboard_agg
                         THEN leaderboard_agg[key] + run[w].lb_delta
                         ELSE run[w].lb_delta
                   /\ \A k \in DOMAIN leaderboard_agg \ {key} :
                         leaderboard_agg'[k] = leaderboard_agg[k]]_vars

\* a re-match of a Run of 2026-02-15 that changed its distance: the all
\* and foot rows of week_2026-02-09 existed and hold the new distance
C12_Witness ==
    \E w \in Workers :
        /\ run[w].lb = "applied"
        /\ activities[run[w].activity_id].type = "Run"
        /\ run[w].old_distance_on_trail > 0
        /\ run[w].lb_delta # 0
        /\ Len(run[w].lb_keys) = 6
        /\ \A b \in {"all", "foot"} :
              /\ <<<<"week", 2026, 2, 9>>, "distance", b, run[w].athlete_id>>
                    \in DOMAIN leaderboard_agg
              /\ leaderboard_agg[<<<<"week", 2026, 2, 9>>, "distance", b,
                                   run[w].athlete_id>>]
                    = run[w].old_distance_on_trail + run[w].lb_delta

\* C13: calculate_trail_intersection returns (0, 0) whenever the activity
\* has no coordinates or the network has no segments, for every
\* tolerance, and does so before any stage of the matching.
C13_EmptyInputsGiveZero ==
    (/\ probe.pc = "returned"
     /\ probe.activity_coords = << >> \/ probe.trail_segments = << >>)
    => /\ probe.distance_on_trail = 0
       /\ probe.ratio_num = 0
       /\ probe.returned_at = "empty"
       /\ ~probe.sampled /\ ~probe.classified

\* a three-point activity on the main trail against a network without
\* segments, at the largest tolerance
C13_Witness ==
    /\ probe.pc = "returned"
    /\ probe.trail_segments = << >>
    /\ probe.activity_coords = << <<0, 20>>, <<20, 40>>, <<20, 80>> >>
    /\ probe.tolerance_meters = 50
    /\ probe.distance_on_trail = 0 /\ probe.ratio_num = 0

\* the sum of the lengths of all edges of a path
RECURSIVE EdgeLengthSum(_)
EdgeLengthSum(coords) ==
    IF Len(coords) < 2 THEN 0
    ELSE haversine_distance(2 * coords[1][1], 2 * coords[1][2],
                            2 * coords[2][1], 2 * coords[2][2])
         + EdgeLengthSum(Tail(coords))

\* C14: for every input the result has 0 <= distance_on_trail <= total
\* distance (the sum of all edge lengths of the activity) and a ratio in
\* [0, 1]; the ratio is 0 when the total distance is 0, and is
\* distance_on_trail / total distance when the edges were classified.
C14_DistanceAndRatioBounds ==
    probe.pc = "returned" =>
        LET total == EdgeLengthSum(probe.activity_coords)
        IN  /\ 0 <= probe.distance_on_trail
            /\ probe.distance_on_trail <= total
            /\ probe.ratio_den > 0
            /\ 0 <= probe.ratio_num
            /\ probe.ratio_num <= probe.ratio_den
            /\ total = 0 => probe.ratio_num = 0
            /\ (probe.classified /\ total > 0) =>
                  /\ probe.ratio_num = probe.distance_on_trail
                  /\ probe.ratio_den = total

\* an activity that is on the trail for a part of its length
C14_Witness ==
    /\ probe.pc = "returned" /\ probe.classified
    /\ Len(probe.activity_coords) = 3
    /\ 0 < probe.distance_on_trail
    /\ probe.distance_on_trail < EdgeLengthSum(probe.activity_coords)
    /\ probe.ratio_num = probe.distance_on_trail
    /\ probe.ratio_den = EdgeLengthSum(probe.activity_coords)

\* C15: for fixed activity coordinates and a fixed network the returned
\* distance_on_trail is non-decreasing in the tolerance: every smaller
\* tolerance gives at most the distance of the call.
C15_MonotoneInTolerance ==
    probe.pc = "returned" =>
        \A t1 \in ProbeTolerances :
            t1 <= probe.tolerance_meters =>
                calculate_trail_intersection(probe.activity_coords,
                                             probe.trail_segments, t1).distance_on_trail
                   <= probe.distance_on_trail

\* the distance grows twice along the tolerances: rejected by the
\* bounding boxes at the smallest, one edge on the trail at a larger one,
\* more at the tolerance of the call
C15_Witness ==
    /\ probe.pc = "returned" /\ probe.classified
    /\ \E t0, t1 \in ProbeTolerances :
         LET d0 == calculate_trail_intersection(probe.activity_coords,
                       probe.trail_segments, t0).distance_on_trail
             d1 == calculate_trail_intersection(probe.activity_coords,
                       probe.trail_segments, t1).distance_on_trail
         IN  /\ t0 < t1 /\ t1 < probe.tolerance_meters
             /\ BBoxSeparated(probe.activity_coords,
                              Flatten(probe.trail_segments), t0)
             /\ d0 = 0 /\ d0 < d1 /\ d1 < probe.distance_on_trail

\* the activity's box, expanded by the tolerance, lies entirely on one
\* side of the box of the trail points (coordinates times 111, metres
\* times 100)
BoxesDisjoint(activity_coords, trail_segments, tolerance_meters) ==
    LET A == SeqRange(activity_coords)
        T == UNION { SeqRange(trail_segments[i]) : i \in 1..Len(trail_segments) }
        tol == 100 * tolerance_meters
    IN  \/ \A a \in A, t \in T : 111 * a[1] + tol < 111 * t[1]
        \/ \A a \in A, t \in T : 111 * a[1] - tol > 111 * t[1]
        \/ \A a \in A, t \in T : 111 * a[2] + tol < 111 * t[2]
        \/ \A a \in A, t \in T : 111 * a[2] - tol > 111 * t[2]

\* C16: when the activity's bounding box, expanded by the tolerance,
\* does not overlap the bounding box of the trail network, the call
\* returns (0, 0) from the bounding-box stage: it neither samples nor
\* classifies an edge.
C16_DisjointBoxesReturnAtStageA ==
    (/\ probe.pc \in {"sample", "edges", "returned"}
     /\ probe.activity_coords # << >> /\ probe.trail_segments # << >>
     /\ BoxesDisjoint(probe.activity_coords, probe.trail_segments,
                      probe.tolerance_meters))
    => /\ probe.pc = "returned"
       /\ probe.returned_at = "bbox"
       /\ ~probe.sampled /\ ~probe.classified
       /\ probe.distance_on_trail = 0 /\ probe.ratio_num = 0

\* an activity 22 m north of the main trail, matched at a tolerance of 5 m
C16_Witness ==
    /\ probe.pc = "returned" /\ probe.returned_at = "bbox"
    /\ probe.activity_coords = << <<20, 40>>, <<20, 80>> >>
    /\ probe.tolerance_meters = 5
    /\ Len(probe.trail_segments) = 1
    /\ probe.distance_on_trail = 0

\* C17: match_activity is idempotent for the stored fields of its
\* activity: of two sequential calls on the same activity that saw the
\* same row and loaded the same collections, the later one returns the
\* distance, time and message of the earlier one, writes if and only if
\* the earlier one wrote, and persists the same distance_on_trail and
\* time_on_trail, which the row then holds.
C17_RepeatedRunsPersistTheSame ==
    \A w1, w2 \in Workers :
        (/\ w1 # w2
         /\ run[w1].pc = "done" /\ run[w2].pc # "idle"
         /\ run[w1].activity_id = run[w2].activity_id
         /\ ~run[w1].missing
         /\ run[w1].loaded = run[w2].loaded)
        => /\ run[w2].polyline = run[w1].polyline
           /\ run[w2].distance_on_trail = run[w1].distance_on_trail
           /\ run[w2].time_on_trail = run[w1].time_on_trail
           /\ run[w2].pc = "done" =>
                 /\ run[w2].message = run[w1].message
                 /\ run[w2].written = run[w1].written
           /\ (run[w1].written /\ run[w2].written) =>
                 /\ run[w2].persisted[1].distance_on_trail
                       = run[w1].persisted[1].distance_on_trail
                 /\ run[w2].persisted[1].time_on_trail
                       = run[w1].persisted[1].time_on_trail
                 /\ activities[run[w1].activity_id].distance_on_trail
                       = Some(run[w1].distance_on_trail)
                 /\ activities[run[w1].activity_id].time_on_trail
                       = Some(run[w1].time_on_trail)

\* a second call on a matched activity, started after the first had
\* returned, found and persisted the same non-zero distance and time
C17_Witness ==
    \E w1, w2 \in Workers :
        /\ run[w1].pc = "done" /\ run[w2].pc = "done"
        /\ run[w1].activity_id = run[w2].activity_id
        /\ run[w1].loaded = <<TRUE, TRUE>> /\ run[w2].loaded = <<TRUE, TRUE>>
        /\ run[w1].persisted[1].last_matched = Some(1)
        /\ run[w2].persisted[1].last_matched = Some(2)
        /\ run[w1].distance_on_trail > 0 /\ run[w1].time_on_trail > 0
        /\ run[w2].old_distance_on_trail = run[w1].distance_on_trail
        /\ run[w2].persisted[1].distance_on_trail = Some(run[w1].distance_on_trail)
        /\ run[w2].persisted[1].time_on_trail = Some(run[w1].time_on_trail)

\* C18 (as claimed): no call is started on an activity whose last_matched
\* is non-null (it takes a reset of last_matched from outside to match an
\* activity again), and no step of a call sets last_matched back to NULL.
C18_NoStartOnAttemptedActivity ==
    /\ [][\A w \in Workers :
             (run[w].pc = "idle" /\ run'[w].pc # "idle") =>
                \/ ~activities[run'[w].activity_id].present
                \/ activities[run'[w].activity_id].last_matched = Null]_vars
    /\ [][\A id \in ActIds :
             (/\ activities[id].present /\ activities'[id].present
              /\ activities[id].last_matched # Null
              /\ activities'[id].last_matched = Null)
             => run' = run]_vars

\* a row keeps its metrics and stamp, or is changed by the UPDATE of a
\* call on it, which sets all three columns from that call and the clock,
\* or has its stamp alone reset to NULL
RowStep(id) ==
    LET a == activities[id]
        b == activities'[id]
    IN  \/ /\ b.distance_on_trail = a.distance_on_trail
           /\ b.time_on_trail = a.time_on_trail
           /\ b.last_matched = a.last_matched
        \/ \E w \in Workers :
              /\ run[w].pc = "write" /\ run'[w].pc = "lb_pref"
              /\ run[w].activity_id = id
              /\ b.distance_on_trail = Some(run[w].distance_on_trail)
              /\ b.time_on_trail = Some(run[w].time_on_trail)
              /\ b.last_matched = Some(now)
        \/ /\ b.distance_on_trail = a.distance_on_trail
           /\ b.time_on_trail = a.time_on_trail
           /\ b.last_matched = Null
           /\ run' = run

\* C19: last_matched is only ever written by the one UPDATE that also
\* writes distance_on_trail and time_on_trail of the same call; a call
\* that is cut off leaves every activity row as it was, so that an
\* unmatched activity stays unmatched; a stamped row always has metrics.
C19_StampOnlyWithMetrics ==
    /\ [](\A id \in ActIds :
            (activities[id].present /\ activities[id].last_matched # Null) =>
               /\ activities[id].distance_on_trail # Null
               /\ activities[id].time_on_trail # Null)
    /\ [][\A id \in ActIds : RowStep(id)]_vars
    /\ [][\A w \in Workers :
             (run[w].pc \notin {"idle", "done"} /\ run'[w].pc = "idle")
             => activities' = activities]_vars

\* a call on an unmatched activity with a matchable polyline was cut off
\* before its UPDATE: the row has neither metrics nor stamp
C19_Witness ==
    \E w \in Workers :
        /\ run[w].pc = "idle" /\ run[w].message = "Task timed out"
        /\ run[w].activity_id = 1
        /\ activities[1].last_matched = Null
        /\ activities[1].distance_on_trail = Null
        /\ activities[1].time_on_trail = Null
        /\ faults = 1

\* C20 (as claimed): when one of the two collections cannot be read,
\* loading the trail network fails for the call, and the call persists
\* zero metrics and a stamp instead of matching against the collection
\* that could be read.
C20_OneCollectionMissingFailsLoad ==
    \A w \in Workers :
        run[w].loaded \in { <<TRUE, FALSE>>, <<FALSE, TRUE>> } =>
            /\ run[w].trail = "failed"
            /\ run[w].distance_on_trail = 0 /\ run[w].time_on_trail = 0
            /\ run[w].pc # "write" => PersistedZeros(w)

\* the point (in half units) is within d decimetres of an edge joining
\* two consecutive points of one segment of the network
NearSameSegmentEdge(lat2, lon2, trail_segments, d) ==
    \E s \in 1..Len(trail_segments) :
       \E j \in 1..(Len(trail_segments[s]) - 1) :
          point_to_segment_distance(lon2, lat2,
              2 * trail_segments[s][j][2], 2 * trail_segments[s][j][1],
              2 * trail_segments[s][j + 1][2], 2 * trail_segments[s][j + 1][1]) <= d

\* the sum of the lengths of the activity edges whose midpoint is within
\* tolerance of an edge of one segment
RECURSIVE NearSegmentLength(_, _, _)
NearSegmentLength(coords, trail_segments, tolerance_meters) ==
    IF Len(coords) < 2 THEN 0
    ELSE (IF NearSameSegmentEdge(coords[1][1] + coords[2][1],
                                 coords[1][2] + coords[2][2],
                                 trail_segments, 10 * tolerance_meters)
          THEN haversine_distance(2 * coords[1][1], 2 * coords[1][2],
                                  2 * coords[2][1], 2 * coords[2][2])
          ELSE 0)
         + NearSegmentLength(Tail(coords), trail_segments, tolerance_meters)

\* C22: trail segments are matched independently.  A call that passes the
\* sampling has an activity point within 5 x tolerance of an edge joining
\* consecutive points of one segment, and the distance returned by the
\* per-edge classification is the length of the activity edges whose
\* midpoint is within tolerance of such an edge: an edge that is near the
\* gap between two segments only is not counted.
C22_SegmentsMatchedIndependently ==
    /\ (probe.sampled /\ probe.pc \in {"edges", "returned"}
        /\ probe.returned_at # "sample") =>
           \E i \in 1..Len(probe.activity_coords) :
              NearSameSegmentEdge(2 * probe.activity_coords[i][1],
                                  2 * probe.activity_coords[i][2],
                                  probe.trail_segments,
                                  50 * probe.tolerance_meters)
    /\ (probe.pc = "returned" /\ probe.classified) =>
           probe.distance_on_trail
              = NearSegmentLength(probe.activity_coords, probe.trail_segments,
                                  probe.tolerance_meters)

\* an edge 22 m north of the gap of the two-line collection, 40 m from
\* the end of either line: within 25 m of the line through the gap, yet
\* not on the trail
C22_Witness ==
    /\ probe.pc = "returned" /\ probe.classified
    /\ probe.trail_segments = FeaturesToSegments(GapGeoJSON)
    /\ Len(probe.trail_segments) = 2
    /\ probe.activity_coords = << <<20, 40>>, <<20, 80>> >>
    /\ probe.tolerance_meters = 25
    /\ point_to_segment_distance(120, 40, 60, 0, 180, 0) <= 250
    /\ probe.distance_on_trail = 0

\* C25 (as claimed): the sampling rejection is sound: when a call returns
\* (0, 0) because no sampled activity point is within 5 x tolerance of a
\* sampled trail edge, the per-edge classification would have found no
\* on-trail edge either.
C25_SamplingRejectionIsSound ==
    (probe.pc = "returned" /\ probe.returned_at = "sample") =>
        OnTrailDistance(probe.activity_coords, probe.trail_segments,
                        probe.tolerance_meters, 1) = 0

\* C23: on the matched path the time_on_trail persisted is
\* floor(moving_time x ratio), the ratio being distance_on_trail over the
\* total length of the path (0 when that length is 0).  Hence
\* 0 <= time_on_trail <= moving_time, time_on_trail = 0 when
\* distance_on_trail = 0, and time_on_trail = moving_time when every edge
\* of the path is on the trail.
C23_TimeOnTrailIsFloorOfMovingTimeTimesRatio ==
    \A w \in Workers :
        (/\ run[w].written /\ run[w].persisted # Null
         /\ run[w].trail = "ok" /\ run[w].loaded # << >>
         /\ activities[run[w].activity_id].present)
        => LET row == activities[run[w].activity_id]
               coords == decode_polyline(row.polyline).coords
               total == EdgeLengthSum(coords)
               d == run[w].persisted[1].distance_on_trail[1]
               t == run[w].persisted[1].time_on_trail[1]
           IN  /\ t = IF total > 0 THEN (row.moving_time * d) \div total ELSE 0
               /\ 0 <= t /\ t <= row.moving_time
               /\ d = 0 => t = 0
               /\ (total > 0 /\ d = total) => t = row.moving_time

\* one call persisted the whole moving time of a path wholly on the trail,
\* another a part of the moving time of a path that leaves the trail
C23_Witness ==
    \E w1, w2 \in Workers :
        /\ run[w1].written /\ run[w1].trail = "ok" /\ run[w1].persisted # Null
        /\ run[w2].written /\ run[w2].trail = "ok" /\ run[w2].persisted # Null
        /\ run[w1].loaded = <<TRUE, TRUE>> /\ run[w2].loaded = <<TRUE, TRUE>>
        /\ run[w1].polyline = PolyNear /\ run[w2].polyline = PolyPartial
        /\ run[w1].persisted[1].distance_on_trail = Some(888)
        /\ run[w1].persisted[1].time_on_trail
              = Some(activities[run[w1].activity_id].moving_time)
        /\ run[w2].persisted[1].distance_on_trail = Some(444)
        /\ run[w2].persisted[1].time_on_trail[1] > 0
        /\ run[w2].persisted[1].time_on_trail[1]
              < activities[run[w2].activity_id].moving_time

\* no call is in progress
Quiescent == \A w \in Workers : run[w].pc \in {"idle", "done"}

\* C26: under a sequential dispatch, as long as no leaderboard statement
\* has failed, whenever no call is in progress every row of
\* leaderboard_agg holds the sum of the distance_on_trail now stored for
\* the activities of that athlete in that window and bucket, and every
\* window and bucket with a non-zero sum has its row; resets of
\* last_matched in between make no difference.
C26_AggregatesEqualStoredSums ==
    (Quiescent /\ faults = 0) =>
        /\ \A k \in DOMAIN leaderboard_agg : leaderboard_agg[k] = StoredSum(ActIds, k)
        /\ \A id \in ActIds : \A k \in ContributionKeys(id) :
              StoredSum(ActIds, k) # 0 => k \in DOMAIN leaderboard_agg

\* two activities of one athlete, window and bucket were matched one
\* after the other and one of them was reset afterwards: the rows hold
\* the sum of the two distances
C26_Witness ==
    /\ Quiescent /\ faults = 0
    /\ \E w1, w2 \in Workers :
          /\ run[w1].pc = "done" /\ run[w2].pc = "done"
          /\ run[w1].activity_id = 1 /\ run[w2].activity_id = 2
          /\ run[w1].lb = "applied" /\ run[w2].lb = "applied"
          /\ run[w1].lb_keys = run[w2].lb_keys
          /\ \A i \in 1..Len(run[w1].lb_keys) :
                leaderboard_agg[run[w1].lb_keys[i]] = 888 + 444
    /\ activities[1].distance_on_trail = Some(888)
    /\ activities[2].distance_on_trail = Some(444)
    /\ \E id \in ActIds : activities[id].last_matched = Null

\* C27 (as claimed): a redelivery repairs an interrupted attempt.  When a
\* call on an activity was cut off and a later call on the same activity
\* has run to its end (it was the last to write the row, and its
\* leaderboard update ended without an error), every row of
\* leaderboard_agg holds the sum of the distance_on_trail stored for the
\* activities of that athlete in that window and bucket, and every window
\* and bucket with a non-zero sum has its row.
C27_RedeliveryRepairsAggregates ==
    \A w1, w2 \in Workers :
        (/\ Quiescent
         /\ run[w1].pc = "idle" /\ run[w1].message = "Task timed out"
         /\ run[w2].pc = "done" /\ run[w2].activity_id = run[w1].activity_id
         /\ run[w2].written /\ run[w2].persisted # Null
         /\ run[w2].lb \in {"applied", "skipped"}
         /\ activities[run[w2].activity_id].present
         /\ activities[run[w2].activity_id].last_matched
               = run[w2].persisted[1].last_matched)
        => /\ \A k \in DOMAIN leaderboard_agg :
                 leaderboard_agg[k] = StoredSum(ActIds, k)
           /\ \A k \in ContributionKeys(run[w2].activity_id) :
                 StoredSum(ActIds, k) # 0 => k \in DOMAIN leaderboard_agg

\* C29 (as claimed): no row of leaderboard_agg is ever negative, whatever
\* the interleaving of calls (duplicate deliveries included) and delete
\* events.
C29_AggregatesNeverNegative ==
    \A k \in DOMAIN leaderboard_agg : leaderboard_agg[k] >= 0

\* C21: in a run of the batch driver each selected activity is passed to
\* invoke_match_activity exactly once, in the order selected; an activity
\* that cannot be queued does not stop the loop; and when the handler
\* returns, queued + failed_to_queue = total_found.
C21_EachSelectedAttemptedOnce ==
    /\ driver.attempted = SubSeq(driver.selected, 1, driver.idx)
    /\ \A i, j \in 1..Len(driver.selected) :
          i # j => driver.selected[i] # driver.selected[j]
    /\ Len(driver.results) = driver.idx
    /\ driver.queued_count
          = Cardinality({ i \in 1..driver.idx : driver.results[i] })
    /\ driver.failed_to_queue_count
          = Cardinality({ i \in 1..driver.idx : ~driver.results[i] })
    /\ driver.pc = "loop" => driver.idx < Len(driver.selected)
    /\ driver.pc = "done" =>
          /\ driver.attempted = driver.selected
          /\ driver.total_found = Len(driver.selected)
          /\ driver.queued_count + driver.failed_to_queue_count = driver.total_found

\* a run that found two activities, could not queue the first and queued
\* the second
C21_Witness ==
    /\ driver.pc = "done"
    /\ driver.total_found = 2
    /\ driver.results = <<FALSE, TRUE>>
    /\ driver.queued_count = 1 /\ driver.failed_to_queue_count = 1
    /\ invocations[driver.selected[2]] = 1

\* a create or update event for activity id has just been processed
HookStep(id) ==
    /\ activities'[id].present
    /\ \/ ~activities[id].present
       \/ activities'[id].distance # activities[id].distance

\* C24 (as claimed): a create event for a new activity of an athlete who
\* is visible on leaderboards takes the old distance as 0 and increments
\* every window and bucket row of the activity by the activity's
\* distance; an update event changes each of them by the new distance
\* minus the distance stored before the event.
C24_WebhookAppliesDistanceDelta ==
    [][\A id \in DispatchIds :
          (/\ HookStep(id)
           /\ users[activities'[id].athlete_id] = Some(TRUE)
           /\ activities'[id].start_date_local # Null)
          => LET row == activities'[id]
                 old == IF activities[id].present THEN activities[id].distance ELSE 0
                 keys == SeqRange(CrossKeys(get_window_keys(row.start_date_local[1]),
                                            AggTypes(row.type), row.athlete_id))
             IN  \A k \in keys :
                    /\ k \in DOMAIN leaderboard_agg'
                    /\ leaderboard_agg'[k]
                          = (IF k \in DOMAIN leaderboard_agg
                             THEN leaderboard_agg[k] ELSE 0) + row.distance - old]_vars

\* C28 (as claimed): while the batch driver keeps running and every
\* queued invocation runs to its end, every activity whose last_matched
\* is NULL eventually gets it set, whatever its polyline and athlete: no
\* activity stays in the driver's selection for ever.
C28_EveryUnmatchedActivityIsEventuallyStamped ==
    \A id \in ActIds :
        (activities[id].present /\ activities[id].last_matched = Null)
           ~> (activities[id].last_matched # Null)

\* the full recalculation has just run
RecalcStep ==
    /\ Quiescent
    /\ run' = run /\ activities' = activities
    /\ leaderboard_agg' # leaderboard_agg

\* the recalculation left the value of every row there was, and every row
\* it added holds 0
RecalcAgrees ==
    /\ \A k \in DOMAIN leaderboard_agg :
          k \in DOMAIN leaderboard_agg' /\ leaderboard_agg'[k] = leaderboard_agg[k]
    /\ \A k \in DOMAIN leaderboard_agg' \ DOMAIN leaderboard_agg :
          leaderboard_agg'[k] = 0

====
